---------------------------- MODULE Spec2Model ----------------------------
(***************************************************************************)
(* CypherVault: the cryptographic vault core.                              *)
(*                                                                         *)
(*   cryptoUtils   (AES-GCM envelopes, PBKDF2 key derivation, hashing)     *)
(*   secureStorage (volatile custody with expiry timers, session custody)  *)
(*   auditLogger   (hash-chained audit log)                                *)
(*   stealthModeUtils.triggerPanic and the AuthContext vault lifecycle     *)
(*                                                                         *)
(* Strings are sequences of UTF-16 code units, buffers are sequences of    *)
(* bytes.  The Web Crypto primitives are symbolic: a PBKDF2 key is the     *)
(* pair (password bytes, salt), an AES-GCM ciphertext opens only under the *)
(* key and nonce that made it, SHA-256 is injective, and every call of     *)
(* crypto.getRandomValues returns a value never returned before.           *)
(***************************************************************************)
EXTENDS Integers, Sequences, FiniteSets, TLC

VARIABLES
    \* ---- cryptoUtils exercised as pure functions
    cPc,                \* "start" | "encrypted" | "decrypted" | "hashed" | "verified",
                        \* or "start" | "encrypted" | "mangled" | "opened"
    cP,                 \* the plaintext handed to encryptData
    cK1,                \* the password handed to encryptData
    cK2,                \* the password of the second decryptData
    cEnv,               \* the envelope encryptData returned
    cOut1,              \* decryptData(cEnv, cK1)
    cOut2,              \* decryptData(cEnv, cK2)
    cHashed,            \* hashMasterkey(cK1)
    cVerified,          \* verifyMasterkey(cK1, cHashed) and verifyMasterkey(cK2, cHashed)
    cMangle,            \* what is done to the envelope before it is opened
    cIn,                \* the envelopes handed to the decrypting functions
    cOpened,            \* what the decrypting functions returned for them
    \* ---- secureStorage: the volatile tier
    now,                \* Date.now(), in ticks of five minutes
    inMemoryStorage,    \* key -> Absent or [value, expiry, timeoutId]
    timers,             \* the pending setTimeout callbacks [id, key, due]
    nextTimerId,        \* the id the next setTimeout returns
    lastHold,           \* history: key -> the last secureSet a caller made and has not released
    holds,              \* history: key -> number of secureSet calls that armed a timer
    \* ---- secureStorage: the session tier, and the random source
    sessionStorage,     \* key -> Absent or the stored [value, expiry]
    rng,                \* number of crypto.getRandomValues calls made so far
    produced,           \* history: the envelopes encryptData has returned, in order
    \* ---- auditLogger and Firestore
    cachedSessionLoggingKey,  \* the module variable of auditLogger
    auditLogs,          \* the collection auditLogs/u1/logs, in order of addDoc
    authAccount,        \* a Firebase Auth account exists
    authPassword,       \* the password Firebase Auth holds for the account
    userDoc,            \* the document users/u1: NoDoc or [vault, vaultKeyHash, stealthModeSettings]
    \* ---- AuthContext
    currentUser,        \* NoUser or the uid
    vaultUnlocked,
    masterKey,          \* the masterKey state of AuthProvider
    autoLockTime,       \* the autoLockTime state of AuthProvider, in ticks
    lastActivity,       \* the lastActivity state of AuthProvider
    \* ---- stealthModeUtils.triggerPanic
    panicPc,            \* "idle" | "settings" | "clipboard" | "logging" | "redirected"
    panicKnownUid,      \* history: the uid userPanicData held when the panic signal arrived
    lockLogPending,     \* handlePanicMode's logAuditEvent has started and not finished
    \* ---- auditLogger called directly
    inFlight,           \* the entries of the logAuditEvent calls awaiting storeLogEntry
    overlap,            \* history: the entries of two calls that were in flight together
    retained,           \* history: the array storeLogEntry last handed to secureSessionSet
    tampered,           \* history: 0, or the place in auditLogs of the altered record
    verifyResult,       \* what the last verifyAuditLogIntegrity returned
    \* ---- the page and its host
    unloaded,           \* beforeunload has fired and its listener has run
    loaded,             \* what the last loadPasswords or loadVaultData call left
    \* ---- MasterkeyForm
    attempt,            \* the handleSubmit call of the form: its unlockVault and its timeout
    \* ---- master-key rotation, account deletion, Change Password
    sensitive,          \* history: the last such call or password change, its challenge, whether it wrote
    \* ---- the idle effect of AuthProvider
    checkDue,           \* the interval's callback of this instant has yet to run
    idleCheck,          \* history: what the last step saw, if it was that callback
    \* ---- clipboardUtils
    clipboard,          \* the system clipboard: what was copied, when, by which copy
    clipboardSettings,  \* localStorage item clipboard_settings_u1, or absent
    clipboardTimers,    \* the pending auto-clear timeouts
    clipboardCleared,   \* history: the copy an auto-clear last wiped, and when
    \* ---- AuthProvider: rate limiting of unlockVault
    unlockAttempts,     \* the unlockAttempts state: [count, lastAttempt]
    unlockHistory,      \* history: when unlockVault failed since it last succeeded, and how the last call ended
    \* ---- triggerPanic: what went wrong
    panicFailed,        \* history: the steps of triggerPanic that failed
    \* ---- the Vault page
    passwords,          \* the passwords state of the page: the list it shows
    mutations,          \* the handler calls awaiting their write: [op, arg, key, snapshot]
    vaultDone,          \* history: how the last handler call ended, what was added, what removed
    \* ---- AuthProvider: authentication and its second factor
    isAuthenticated,    \* the isAuthenticated state
    twoFactorEnabled,   \* the field twoFactorEnabled of users/u1
    gate                \* login's position, the listener's pending delivery, and history:
                        \* whether this session needs a code, whether one was verified

cipherVars == <<cPc, cP, cK1, cK2, cEnv, cOut1, cOut2,
                cHashed, cVerified, cMangle, cIn, cOpened>>

custodyVars == <<now, inMemoryStorage, timers, nextTimerId, lastHold, holds>>

auditVars == <<inFlight, overlap, retained, tampered, verifyResult>>

hostVars == <<unloaded, loaded>>

uiVars == <<attempt>>

rotationVars == <<sensitive>>

idleVars == <<checkDue, idleCheck>>

clipboardVars == <<clipboard, clipboardSettings, clipboardTimers, clipboardCleared>>

sessionVars == <<unlockAttempts, unlockHistory>>

vaultPageVars == <<passwords, mutations, vaultDone>>

gateVars == <<isAuthenticated, twoFactorEnabled, gate>>

pageVars == <<panicFailed, vaultPageVars, gateVars>>

opVars == <<rotationVars, idleVars, clipboardVars, sessionVars, pageVars>>

appCoreVars == <<sessionStorage, rng, produced, cachedSessionLoggingKey, auditLogs,
                 authAccount, authPassword, userDoc, currentUser, vaultUnlocked,
                 masterKey, autoLockTime, lastActivity,
                 panicPc, panicKnownUid, lockLogPending, auditVars>>

appVars == <<appCoreVars, hostVars, uiVars, opVars>>

vars == <<cipherVars, custodyVars, appVars>>

-----------------------------------------------------------------------------
(* Bounds *)

MaxPlainLen == 2        \* longest plaintext, in code units
MaxPwLen == 1           \* longest password, in code units
MaxTime == 3            \* the clock stops advancing here
MaxTimers == 3          \* setTimeout calls of one run
MaxRandom == 12         \* crypto.getRandomValues calls of one run
MaxEntries == 1          \* entries of the vault
MaxInFlight == 2        \* logAuditEvent calls in flight together
MaxLogged == 3          \* logAuditEvent calls of one run of the logger
MaxRateTime == 4        \* the clock of the rate limit stops advancing here
MaxRateRandom == 18     \* crypto.getRandomValues calls of a rate-limited run
MaxVaultEntries == 2    \* ids uuidv4 hands to the Vault page
MaxMutations == 2       \* handler calls of the Vault page awaiting their write
MaxVaultRandom == 14    \* crypto.getRandomValues calls of a run of the Vault page

-----------------------------------------------------------------------------
(* JavaScript strings and the Encoding standard *)

\* 'a', U+00E9 (two UTF-8 bytes), U+FEFF (byte order mark, three bytes),
\* U+D83D (a high surrogate) and U+DE00 (a low surrogate)
CodeUnits == {97, 233, 65279, 55357, 56832}

RECURSIVE SeqsUpTo(_, _)
SeqsUpTo(S, n) ==
    IF n = 0 THEN {<<>>}
    ELSE LET shorter == SeqsUpTo(S, n - 1)
         IN  shorter \cup {Append(s, c) : s \in {t \in shorter : Len(t) = n - 1}, c \in S}

IsHighSurrogate(c) == c >= 55296 /\ c <= 56319
IsLowSurrogate(c) == c >= 56320 /\ c <= 57343
IsSurrogate(c) == c >= 55296 /\ c <= 57343

\* UTF-8 bytes of one scalar value
EncodeCodePoint(cp) ==
    IF cp < 128 THEN <<cp>>
    ELSE IF cp < 2048 THEN <<192 + (cp \div 64), 128 + (cp % 64)>>
    ELSE IF cp < 65536
         THEN <<224 + (cp \div 4096), 128 + ((cp \div 64) % 64), 128 + (cp % 64)>>
    ELSE <<240 + (cp \div 262144), 128 + ((cp \div 4096) % 64),
           128 + ((cp \div 64) % 64), 128 + (cp % 64)>>

\* new TextEncoder().encode(str): the string is first converted to a
\* USVString (a surrogate pair is one scalar value, an unpaired surrogate
\* becomes U+FFFD), then encoded as UTF-8
RECURSIVE stringToArrayBuffer(_)
stringToArrayBuffer(str) ==
    IF str = <<>> THEN <<>>
    ELSE LET c == Head(str)
         IN  IF IsHighSurrogate(c) /\ Len(str) >= 2 /\ IsLowSurrogate(str[2])
             THEN EncodeCodePoint(65536 + (c - 55296) * 1024 + (str[2] - 56320))
                      \o stringToArrayBuffer(Tail(Tail(str)))
             ELSE IF IsSurrogate(c)
                  THEN EncodeCodePoint(65533) \o stringToArrayBuffer(Tail(str))
                  ELSE EncodeCodePoint(c) \o stringToArrayBuffer(Tail(str))

IsCont(buf, i) == i <= Len(buf) /\ buf[i] >= 128 /\ buf[i] <= 191

\* UTF-16 code units of one scalar value
CodeUnitsOf(cp) ==
    IF cp < 65536 THEN <<cp>>
    ELSE <<55296 + ((cp - 65536) \div 1024), 56320 + ((cp - 65536) % 1024)>>

\* the UTF-8 decoder: a maximal well-formed subsequence is one scalar value,
\* any other byte is replaced by U+FFFD
RECURSIVE DecodeUtf8(_)
DecodeUtf8(buf) ==
    IF buf = <<>> THEN <<>>
    ELSE LET b == buf[1]
             rest(n) == SubSeq(buf, n + 1, Len(buf))
         IN  IF b < 128 THEN <<b>> \o DecodeUtf8(rest(1))
             ELSE IF b >= 194 /\ b <= 223 /\ IsCont(buf, 2)
                  THEN <<(b - 192) * 64 + (buf[2] - 128)>> \o DecodeUtf8(rest(2))
             ELSE IF b >= 224 /\ b <= 239 /\ IsCont(buf, 2) /\ IsCont(buf, 3)
                     /\ (b = 224 => buf[2] >= 160) /\ (b = 237 => buf[2] <= 159)
                  THEN <<(b - 224) * 4096 + (buf[2] - 128) * 64 + (buf[3] - 128)>>
                           \o DecodeUtf8(rest(3))
             ELSE IF b >= 240 /\ b <= 244 /\ IsCont(buf, 2) /\ IsCont(buf, 3)
                     /\ IsCont(buf, 4)
                     /\ (b = 240 => buf[2] >= 144) /\ (b = 244 => buf[2] <= 143)
                  THEN <<(b - 240) * 262144 + (buf[2] - 128) * 4096
                             + (buf[3] - 128) * 64 + (buf[4] - 128)>>
                           \o DecodeUtf8(rest(4))
             ELSE <<65533>> \o DecodeUtf8(rest(1))

RECURSIVE ToCodeUnits(_)
ToCodeUnits(cps) ==
    IF cps = <<>> THEN <<>> ELSE CodeUnitsOf(Head(cps)) \o ToCodeUnits(Tail(cps))

\* new TextDecoder().decode(buffer): UTF-8, ignoreBOM false, so a leading
\* byte order mark is dropped
arrayBufferToString(buffer) ==
    LET cps == DecodeUtf8(buffer)
    IN  IF cps # <<>> /\ Head(cps) = 65279 THEN ToCodeUnits(Tail(cps))
        ELSE ToCodeUnits(cps)

-----------------------------------------------------------------------------
(* cryptoUtils: envelopes *)

\* window.btoa over the bytes of a buffer / window.atob: a base64 text has
\* no ':' and decodes to the bytes it encodes
arrayBufferToBase64(buffer) == [b64 |-> buffer]

IsBase64(field) == DOMAIN field = {"b64"}

base64ToArrayBuffer(field) == field.b64

\* crypto.getRandomValues: the r-th draw of the page
getRandomValues(r) == [rand |-> r]

generateSalt(r) == getRandomValues(r)

\* a nonce that is the same for every call
generateIVFixed(r) == getRandomValues(0)

generateIV(r) == getRandomValues(r)

\* importKey + PBKDF2 deriveKey: the key is fixed by the password's UTF-8
\* bytes and the salt
deriveKey(password, salt) == [pw |-> stringToArrayBuffer(password), salt |-> salt]

\* subtle.encrypt / subtle.decrypt with AES-GCM
AesGcmEncrypt(key, iv, data) == [key |-> key, iv |-> iv, pt |-> data]

AesGcmOpens(key, iv, ct) ==
    /\ DOMAIN ct = {"key", "iv", "pt"}
    /\ ct.key = key
    /\ ct.iv = iv

DecryptionFailed == "Decryption failed - incorrect master password"

MalformedEnvelope == "Failed to decrypt data"

Ok(v) == [ok |-> TRUE, value |-> v]

Err(e) == [ok |-> FALSE, error |-> e]

\* encryptData(data, masterPassword); r is the number of random draws made
\* so far.  The envelope is the text salt:iv:ciphertext, held as its
\* colon-separated fields.
encryptData(data, masterPassword, r) ==
    LET salt == generateSalt(r + 1)
        iv == generateIV(r + 2)
        dataBuffer == stringToArrayBuffer(data)
        key == deriveKey(masterPassword, salt)
        encryptedBuffer == AesGcmEncrypt(key, iv, dataBuffer)
    IN  <<arrayBufferToBase64(salt), arrayBufferToBase64(iv),
          arrayBufferToBase64(encryptedBuffer)>>

\* decryptData of an implementation that tells a damaged envelope from a
\* wrong password
decryptDataTelling(encryptedData, masterPassword) ==
    IF \/ Len(encryptedData) < 3
       \/ \E i \in 1..3 : encryptedData[i] = <<>>
       \/ \E i \in 1..3 : ~IsBase64(encryptedData[i])
    THEN Err(MalformedEnvelope)
    ELSE LET salt == base64ToArrayBuffer(encryptedData[1])
             iv == base64ToArrayBuffer(encryptedData[2])
             encryptedBuffer == base64ToArrayBuffer(encryptedData[3])
             key == deriveKey(masterPassword, salt)
         IN  IF AesGcmOpens(key, iv, encryptedBuffer)
             THEN Ok(arrayBufferToString(encryptedBuffer.pt))
             ELSE IF DOMAIN encryptedBuffer = {"key", "iv", "pt"}
                     /\ encryptedBuffer.key # key
             THEN Err(DecryptionFailed)
             ELSE Err(MalformedEnvelope)

\* decryptData(encryptedData, masterPassword) on the fields of
\* encryptedData.split(':'): the first three are used, a missing or empty
\* one or one atob rejects throws, an AES-GCM failure is an OperationError
decryptData(encryptedData, masterPassword) ==
    IF \/ Len(encryptedData) < 3
       \/ \E i \in 1..3 : encryptedData[i] = <<>>
       \/ \E i \in 1..3 : ~IsBase64(encryptedData[i])
    THEN Err(MalformedEnvelope)
    ELSE LET salt == base64ToArrayBuffer(encryptedData[1])
             iv == base64ToArrayBuffer(encryptedData[2])
             encryptedBuffer == base64ToArrayBuffer(encryptedData[3])
             key == deriveKey(masterPassword, salt)
         IN  IF AesGcmOpens(key, iv, encryptedBuffer)
             THEN Ok(arrayBufferToString(encryptedBuffer.pt))
             ELSE Err(DecryptionFailed)

IncorrectKey == "Decryption failed - incorrect key"

\* decryptData of encryption.ts: whatever cryptoUtils.decryptData throws is
\* rethrown as one error
encryptionDecryptData(encryptedData, key) ==
    LET decrypted == decryptData(encryptedData, key)
    IN  IF decrypted.ok THEN decrypted ELSE Err(IncorrectKey)

PasswordCryptoFailed ==
    "Failed to decrypt password. Invalid master password or corrupted data."

\* PasswordCrypto.encrypt: base64 of salt + iv + ciphertext
PasswordCryptoEncrypt(plaintext, masterPassword, r) ==
    LET salt == getRandomValues(r + 1)
        iv == getRandomValues(r + 2)
        key == deriveKey(masterPassword, salt)
    IN  arrayBufferToBase64(<<salt, iv, AesGcmEncrypt(key, iv, stringToArrayBuffer(plaintext))>>)

\* PasswordCrypto.decrypt: the three slices of the decoded bytes
PasswordCryptoDecrypt(ciphertext, masterPassword) ==
    LET data == base64ToArrayBuffer(ciphertext)
        salt == data[1]
        iv == data[2]
        encrypted == data[3]
        key == deriveKey(masterPassword, salt)
    IN  IF AesGcmOpens(key, iv, encrypted)
        THEN Ok(arrayBufferToString(encrypted.pt))
        ELSE Err(PasswordCryptoFailed)

-----------------------------------------------------------------------------
(* secureStorage: the volatile tier *)

Null == [null |-> TRUE]

\* a JavaScript string value
JsString(s) == [str |-> s]

Absent == [absent |-> TRUE]

Keys == {"k1", "k2"}

Values == {JsString(<<97>>), JsString(<<233>>)}

\* expiryMs of a secureSet call: 0 stands for the default null (no expiry)
Ttls == {0, 1, 2}

\* An expiry of 0 is the null expiry of an entry stored without expiryMs, a
\* timeoutId of 0 is the missing timeoutId of such an entry.

\* the module state of secureStorage together with the host's timer table
St == [mem |-> inMemoryStorage, timers |-> timers, nextId |-> nextTimerId]

\* clearTimeout(id): a no-op when the timer has fired or was cleared
clearTimeout(ts, id) == {t \in ts : t.id # id}

\* secureRemove(key); sanitizeMemory overwrites a local binding of a string
\* value, which no other code can observe
secureRemove(st, key) ==
    LET item == st.mem[key]
    IN  IF item = Absent THEN st
        ELSE [st EXCEPT !.timers = IF item.timeoutId # 0
                                   THEN clearTimeout(st.timers, item.timeoutId)
                                   ELSE st.timers,
                        !.mem = [st.mem EXCEPT ![key] = Absent]]

\* secureSet that arms the new timer without clearing the previous one
secureSetStacking(st, key, value, expiryMs, t) ==
    LET expiry == IF expiryMs # 0 THEN t + expiryMs ELSE 0
    IN  IF expiry # 0
        THEN [st EXCEPT
                 !.mem = [st.mem EXCEPT ![key] =
                             [value |-> value, expiry |-> expiry, timeoutId |-> st.nextId]],
                 !.timers = st.timers \cup {[id |-> st.nextId, key |-> key, due |-> t + expiryMs]},
                 !.nextId = st.nextId + 1]
        ELSE [st EXCEPT
                 !.mem = [st.mem EXCEPT ![key] =
                             [value |-> value, expiry |-> 0, timeoutId |-> 0]]]

\* secureSet(key, value, expiryMs) at time t
secureSet(st, key, value, expiryMs, t) ==
    LET existingItem == st.mem[key]
        cleared == IF existingItem # Absent /\ existingItem.timeoutId # 0
                   THEN clearTimeout(st.timers, existingItem.timeoutId)
                   ELSE st.timers
        expiry == IF expiryMs # 0 THEN t + expiryMs ELSE 0
    IN  IF expiry # 0
        THEN [st EXCEPT
                 !.mem = [st.mem EXCEPT ![key] =
                             [value |-> value, expiry |-> expiry, timeoutId |-> st.nextId]],
                 !.timers = cleared \cup {[id |-> st.nextId, key |-> key, due |-> t + expiryMs]},
                 !.nextId = st.nextId + 1]
        ELSE [st EXCEPT
                 !.mem = [st.mem EXCEPT ![key] =
                             [value |-> value, expiry |-> 0, timeoutId |-> 0]],
                 !.timers = cleared]

\* secureGet that relies on the expiry callback alone
secureGetTimerOnly(st, key, t) ==
    LET item == st.mem[key]
    IN  IF item = Absent THEN [value |-> Null, st |-> st]
        ELSE [value |-> item.value, st |-> st]

\* secureGet(key) at time t: the value returned and the state it leaves
secureGet(st, key, t) ==
    LET item == st.mem[key]
    IN  IF item = Absent THEN [value |-> Null, st |-> st]
        ELSE IF item.expiry # 0 /\ t > item.expiry
             THEN [value |-> Null, st |-> secureRemove(st, key)]
             ELSE [value |-> item.value, st |-> st]

\* a clearAllSecureData that empties the map and clears no timeout
clearAllSecureDataKeepingTimers(st) ==
    [st EXCEPT !.mem = [k \in DOMAIN st.mem |-> Absent]]

\* clearAllSecureData()
clearAllSecureData(st) ==
    [st EXCEPT !.timers = {t \in st.timers :
                              \A k \in DOMAIN st.mem :
                                  st.mem[k] = Absent \/ st.mem[k].timeoutId # t.id},
               !.mem = [k \in DOMAIN st.mem |-> Absent]]

SetSt(st) ==
    /\ inMemoryStorage' = st.mem
    /\ timers' = st.timers
    /\ nextTimerId' = st.nextId

NoHold == [held |-> FALSE]

CustodyInit ==
    /\ now = 0
    /\ inMemoryStorage = [k \in Keys |-> Absent]
    /\ timers = {}
    /\ nextTimerId = 1
    /\ lastHold = [k \in Keys |-> NoHold]
    /\ holds = [k \in Keys |-> 0]

\* a caller holds a value
SecureSet(k, v, ttl) ==
    /\ ttl # 0 => nextTimerId <= MaxTimers
    /\ SetSt(secureSet(St, k, v, ttl, now))
    /\ lastHold' = [lastHold EXCEPT ![k] = [held |-> TRUE, value |-> v, at |-> now, ttl |-> ttl]]
    /\ holds' = [holds EXCEPT ![k] = IF ttl # 0 THEN @ + 1 ELSE @]
    /\ UNCHANGED now

\* a caller recalls a value
SecureGet(k) ==
    /\ SetSt(secureGet(St, k, now).st)
    /\ UNCHANGED <<now, lastHold, holds>>

\* a caller releases a value
SecureRemove(k) ==
    /\ SetSt(secureRemove(St, k))
    /\ lastHold' = [lastHold EXCEPT ![k] = NoHold]
    /\ UNCHANGED <<now, holds>>

\* a caller releases everything
ClearAllSecureData ==
    /\ SetSt(clearAllSecureData(St))
    /\ lastHold' = [k \in Keys |-> NoHold]
    /\ UNCHANGED <<now, holds>>

\* the host runs an expiry callback, at its due time or later
TimerFire(t) ==
    /\ t \in timers
    /\ now >= t.due
    /\ SetSt(secureRemove([St EXCEPT !.timers = @ \ {t}], t.key))
    /\ UNCHANGED <<now, lastHold, holds>>

Tick ==
    /\ now < MaxTime
    /\ now' = now + 1
    /\ UNCHANGED <<inMemoryStorage, timers, nextTimerId, lastHold, holds>>

\* beforeunload fires: the listener runs clearAllSecureData, and the page is
\* torn down
BeforeUnload ==
    /\ ~unloaded
    /\ unloaded' = TRUE
    /\ SetSt(clearAllSecureData(St))
    /\ lastHold' = [k \in Keys |-> NoHold]
    /\ UNCHANGED <<now, holds, loaded>>

CustodyNext ==
    \/ \E k \in Keys, v \in Values, ttl \in Ttls :
           ~unloaded /\ SecureSet(k, v, ttl) /\ UNCHANGED <<cipherVars, appVars>>
    \/ \E k \in Keys : ~unloaded /\ SecureGet(k) /\ UNCHANGED <<cipherVars, appVars>>
    \/ \E k \in Keys : ~unloaded /\ SecureRemove(k) /\ UNCHANGED <<cipherVars, appVars>>
    \/ ~unloaded /\ ClearAllSecureData /\ UNCHANGED <<cipherVars, appVars>>
    \/ BeforeUnload /\ UNCHANGED <<cipherVars, appCoreVars, uiVars, opVars>>
    \/ \E t \in timers : TimerFire(t) /\ UNCHANGED <<cipherVars, appVars>>
    \/ Tick /\ UNCHANGED <<cipherVars, appVars>>

-----------------------------------------------------------------------------
(* JavaScript values, hashing and JSON *)

JsArray(elems) == [array |-> elems]

\* Array.isArray(value)
IsArray(value) == DOMAIN value = {"array"}

\* the text "[object Object]"
ObjectObject == <<91, 111, 98, 106, 101, 99, 116, 32, 79, 98, 106, 101, 99, 116, 93>>

RECURSIVE ArrayToString(_)
\* Array.prototype.toString of an array of plain objects
ArrayToString(elems) ==
    IF elems = <<>> THEN <<>>
    ELSE IF Len(elems) = 1 THEN ObjectObject
    ELSE ObjectObject \o <<44>> \o ArrayToString(Tail(elems))

\* JsToString(value), the conversion TextEncoder.encode applies to its argument
JsToString(value) ==
    IF DOMAIN value = {"str"} THEN value.str
    ELSE IF IsArray(value) THEN ArrayToString(value.array)
    ELSE ObjectObject

\* Date.now() + x: the sum for a number x, the concatenation of the two
\* texts for a string x
plus(t, x) == IF DOMAIN x = {"num"} THEN [num |-> t + x.num] ELSE [concat |-> <<t, x>>]

\* Date.now() > expiry: a text that is not a numeral converts to NaN, and
\* every comparison with NaN is false
greaterThan(t, expiry) == IF DOMAIN expiry = {"num"} THEN t > expiry.num ELSE FALSE

\* sha256Hash(text): the digest of the encoded text, by the parts of the text
sha256Hash(parts) == [sha256 |-> parts]

\* generateSaltString(): sixteen random bytes in hex
generateSaltString(r) == getRandomValues(r)

\* hashPasswordString(password, salt) with a salt provided
hashPasswordString(password, salt) ==
    sha256Hash(<<stringToArrayBuffer(password), salt>>)

\* a hashMasterkey that stores the password beside the salt
hashMasterkeyInClear(masterkey, r) ==
    LET salt == generateSaltString(r + 1)
    IN  [salt |-> salt, hash |-> [clear |-> stringToArrayBuffer(masterkey)]]

\* hashMasterkey(masterkey): salt + ':' + hash
hashMasterkey(masterkey, r) ==
    LET salt == generateSaltString(r + 1)
    IN  [salt |-> salt, hash |-> hashPasswordString(masterkey, salt)]

\* verifyMasterkey(masterkey, hashedKey)
verifyMasterkey(masterkey, hashedKey) ==
    hashPasswordString(masterkey, hashedKey.salt) = hashedKey.hash

\* generateRandomString(32)
generateRandomString(r) == getRandomValues(r)

\* the vault is the object { passwords: [...] }; an entry is 10 * id + rev
EntryIds == 1..MaxEntries

RECURSIVE StringifyEntries(_)
StringifyEntries(es) ==
    IF es = <<>> THEN <<>>
    ELSE <<48 + (es[1] \div 10), 48 + (es[1] % 10)>>
         \o (IF Len(es) > 1 THEN <<44>> ELSE <<>>)
         \o StringifyEntries(Tail(es))

\* the value undefined
Undefined == [undefined |-> TRUE]

\* an object without a passwords field, and one whose passwords field is a text
NoPasswordsField == [notes |-> <<>>]

PasswordsNotList == [passwords |-> <<>>, passwordsIsText |-> TRUE]

\* JSON.stringify(vaultData), as the text encryptData encodes: undefined,
\* which JSON.stringify(undefined) returns, is encoded as the empty text
JSONstringify(vaultData) ==
    IF vaultData = Undefined THEN <<>>
    ELSE IF vaultData = NoPasswordsField THEN <<123, 110, 125>>
    ELSE IF vaultData = PasswordsNotList THEN <<123, 115, 125>>
    ELSE <<123>> \o StringifyEntries(vaultData.passwords) \o <<125>>

\* JSON.parse(text) returns: it throws a SyntaxError otherwise
IsJSON(text) == Len(text) >= 2 /\ text[1] = 123 /\ text[Len(text)] = 125

RECURSIVE ParseEntries(_)
ParseEntries(text) ==
    IF Len(text) < 2 THEN <<>>
    ELSE <<10 * (text[1] - 48) + (text[2] - 48)>>
         \o ParseEntries(SubSeq(text, 4, Len(text)))

\* JSON.parse(text) of a stringified vault
JSONparse(text) ==
    IF text = <<123, 110, 125>> THEN NoPasswordsField
    ELSE IF text = <<123, 115, 125>> THEN PasswordsNotList
    ELSE [passwords |-> ParseEntries(SubSeq(text, 2, Len(text) - 1))]

-----------------------------------------------------------------------------
(* The application state as one value, and secureStorage's session tier *)

UserId == "u1"

NoUser == "none"

NoDoc == [exists |-> FALSE]

\* a field a document does not have
Missing == [missing |-> TRUE]

AuditLogsKey == "audit_logs_u1"

AppKeys == {"masterKey", "userPanicData", "sessionLoggingKey", "stealthModeSettings",
            "panicKey", AuditLogsKey}

SessionKeys == {AuditLogsKey, "stealthModeSettings"}

\* the code units of a storage key
KeyChars(key) ==
    IF key = AuditLogsKey
    THEN <<97, 117, 100, 105, 116, 95, 108, 111, 103, 115, 95, 117, 49>>
    ELSE <<115, 116, 101, 97, 108, 116, 104, 77, 111, 100, 101, 83, 101, 116, 116, 105, 110, 103, 115>>

\* key.startsWith('secure_')
startsWithSecure(key) == key \in {}

\* SESSION_KEY of stealthModeUtils, drawn when the module loads
SESSION_KEY == JsString(getRandomValues(0))

W == [mem |-> inMemoryStorage, timers |-> timers, nextId |-> nextTimerId,
      session |-> sessionStorage, rng |-> rng, produced |-> produced,
      cachedKey |-> cachedSessionLoggingKey, logs |-> auditLogs, doc |-> userDoc,
      user |-> currentUser, unlocked |-> vaultUnlocked, key |-> masterKey,
      autoLockTime |-> autoLockTime, lastActivity |-> lastActivity]

SetW(w) ==
    /\ inMemoryStorage' = w.mem
    /\ timers' = w.timers
    /\ nextTimerId' = w.nextId
    /\ sessionStorage' = w.session
    /\ rng' = w.rng
    /\ produced' = w.produced
    /\ cachedSessionLoggingKey' = w.cachedKey
    /\ auditLogs' = w.logs
    /\ userDoc' = w.doc
    /\ currentUser' = w.user
    /\ vaultUnlocked' = w.unlocked
    /\ masterKey' = w.key
    /\ autoLockTime' = w.autoLockTime
    /\ lastActivity' = w.lastActivity

\* the state after a call of encryptData that returned env
afterEncrypt(w, env) == [w EXCEPT !.rng = @ + 2, !.produced = Append(@, env)]

\* secureSessionSet(key, value, expiryInMs) at time t
secureSessionSet(w, key, value, expiryInMs, t) ==
    LET encryptedValue == encryptData(JsToString(value), KeyChars(key), w.rng)
        sessionData == [value |-> encryptedValue, expiry |-> plus(t, expiryInMs)]
    IN  [afterEncrypt(w, encryptedValue) EXCEPT !.session = [@ EXCEPT ![key] = sessionData]]

\* secureSessionGet(key) at time t: the value and the state the read leaves.
\* The function has one parameter: a second argument, which every caller
\* passes, is dropped.  JSON.stringify and JSON.parse return the wrapper
\* {value, expiry} as it was, both fields being texts or finite numbers.
secureSessionGet(w, key, encryptionKey, t) ==
    LET sessionData == w.session[key]
    IN  IF sessionData = Absent THEN [value |-> Null, w |-> w]
        ELSE IF greaterThan(t, sessionData.expiry)
        THEN [value |-> Null, w |-> [w EXCEPT !.session[key] = Absent]]
        ELSE LET decrypted == decryptData(sessionData.value, KeyChars(key))
             IN  [value |-> IF decrypted.ok THEN JsString(decrypted.value) ELSE Null,
                  w |-> w]

\* clearAllSecureSessionData()
clearAllSecureSessionData(w) ==
    [w EXCEPT !.session = [k \in DOMAIN w.session |->
                              IF startsWithSecure(k) THEN Absent ELSE w.session[k]]]

-----------------------------------------------------------------------------
(* auditLogger *)

MAX_LOCAL_LOG_ENTRIES == 500

\* the empty text ''
EmptyText == [text |-> <<>>]

\* getSessionLoggingKey() at time t: the key and the state it leaves
getSessionLoggingKey(w, t) ==
    IF w.cachedKey # Null THEN [key |-> w.cachedKey, w |-> w]
    ELSE LET currentKey == secureGet(w, "sessionLoggingKey", t)
         IN  IF currentKey.value # Null
             THEN [key |-> currentKey.value,
                   w |-> [currentKey.st EXCEPT !.cachedKey = currentKey.value]]
             ELSE LET newKey == JsString(generateRandomString(w.rng + 1))
                      drawn == [currentKey.st EXCEPT !.rng = @ + 1]
                  IN  [key |-> newKey,
                       w |-> [secureSet(drawn, "sessionLoggingKey", newKey, 0, t)
                                 EXCEPT !.cachedKey = newKey]]

\* getAuditLogs(userId) at time t.  secureSessionGet is an async function
\* and is not awaited: what it returns here is a Promise.
getAuditLogs(w, userId, t) ==
    LET logs == secureGet(w, AuditLogsKey, t).value
        sessionLogs == [promise |-> "secureSessionGet"]
    IN  IF IsArray(logs) THEN logs.array
        ELSE IF IsArray(sessionLogs) THEN sessionLogs.array
        ELSE <<>>

\* isHighVolumeEvent(eventType)
isHighVolumeEvent(eventType) ==
    eventType \in {"vault_unlocked", "vault_locked", "session_refreshed",
                   "item_viewed", "search_performed", "ui_interaction"}

Take(seq, n) == IF Len(seq) <= n THEN seq ELSE SubSeq(seq, 1, n)

\* the array storeLogEntry hands to secureSessionSet: singleLogArray for a
\* high-volume event, trimmedLogs for any other
logsToStore(w, logEntry, t) ==
    IF isHighVolumeEvent(logEntry.eventType) THEN <<logEntry>>
    ELSE Take(<<logEntry>> \o getAuditLogs(w, logEntry.userId, t), MAX_LOCAL_LOG_ENTRIES)

\* storeLogEntry(logEntry) at time t
storeLogEntry(w, logEntry, t) ==
    LET k == getSessionLoggingKey(w, t)
    IN  secureSessionSet(k.w, AuditLogsKey, JsArray(logsToStore(k.w, logEntry, t)), k.key, t)

\* the sentinel serverTimestamp() returns; the server replaces it on write
ServerTimestamp == -1

\* the description a caller passes with an event type
Description(eventType) == [of |-> eventType]

\* logAuditEvent up to its first await: the logging key is fetched, the
\* previous logs are read and the entry is built
logAuditEventStart(w, userId, eventType, t) ==
    LET k == getSessionLoggingKey(w, t)
        previousLogs == getAuditLogs(k.w, userId, t)
        previousHash == IF Len(previousLogs) > 0 THEN previousLogs[1].clientHash
                        ELSE EmptyText
        description == Description(eventType)
        timestampValue == t
        clientHash == sha256Hash(<<previousHash, userId, eventType, description,
                                   timestampValue>>)
        sequenceId == IF Len(previousLogs) > 0 THEN previousLogs[1].sequenceId + 1 ELSE 1
    IN  [w |-> k.w,
         logEntry |-> [userId |-> userId, eventType |-> eventType,
                       description |-> description, timestamp |-> ServerTimestamp,
                       sequenceId |-> sequenceId, clientHash |-> clientHash]]

\* the rest of logAuditEvent: storeLogEntry, then addDoc to the collection,
\* where the server writes its time in place of the sentinel
logAuditEventFinish(w, logEntry, t) ==
    [storeLogEntry(w, logEntry, t)
        EXCEPT !.logs = Append(@, [logEntry EXCEPT !.timestamp = t])]

\* logAuditEvent(userId, eventType, description)
logAuditEvent(w, userId, eventType, t) ==
    LET started == logAuditEventStart(w, userId, eventType, t)
    IN  logAuditEventFinish(started.w, started.logEntry, t)

\* verifyAuditLogIntegrity(userId) at time t: the result and the state the
\* reads leave.  toMillis() does not exist on the sentinel a local entry
\* carries as its timestamp: the TypeError is caught and reported.
verifyAuditLogIntegrity(w, userId, t) ==
    LET read == secureGet(w, AuditLogsKey, t)
        after == IF IsArray(read.value) THEN read.st
                 ELSE getSessionLoggingKey(read.st, t).w
        logs == getAuditLogs(w, userId, t)
        pairs == 1..(Len(logs) - 1)
        gaps == {[issue |-> "Sequence gap detected",
                  from |-> logs[i + 1].sequenceId, to |-> logs[i].sequenceId] :
                    i \in {j \in pairs : logs[j].sequenceId # logs[j + 1].sequenceId + 1}}
        mismatches ==
            {[issue |-> "Hash mismatch", sequenceId |-> logs[i].sequenceId] :
                i \in {j \in pairs :
                          logs[j].clientHash #
                              sha256Hash(<<logs[j + 1].clientHash, logs[j].userId,
                                           logs[j].eventType, logs[j].description,
                                           logs[j].timestamp>>)}}
        issues == gaps \cup mismatches
    IN  [w |-> after,
         result |-> IF \E i \in pairs : logs[i].timestamp = ServerTimestamp
                    THEN [valid |-> FALSE, issues |-> {[issue |-> "Error verifying logs"]}]
                    ELSE [valid |-> issues = {}, issues |-> issues]]

-----------------------------------------------------------------------------
(* stealthModeUtils *)

\* the settings object a user saves
Settings == [panicKeyEnabled |-> TRUE]

\* updateUserDataForPanic(userId)
updateUserDataForPanic(w, userId, t) ==
    secureSet(w, "userPanicData", [uid |-> userId], 0, t)

\* getSettings(): what it leaves in the volatile tier.  The session-tier copy
\* decrypts to a text, which isValidSettings rejects.
getSettings(w, t) ==
    LET userData == secureGet(w, "userPanicData", t).value
    IN  IF /\ DOMAIN userData = {"uid"}
           /\ w.doc # NoDoc
           /\ w.doc.stealthModeSettings # Missing
        THEN secureSet(w, "stealthModeSettings", w.doc.stealthModeSettings, 0, t)
        ELSE w

\* saveSettings(userId, settings); updateDoc fails when there is no document
saveSettings(w, userId, settings, t) ==
    IF w.doc = NoDoc THEN w
    ELSE LET saved == [w EXCEPT !.doc.stealthModeSettings = settings]
             inMemory == secureSet(saved, "stealthModeSettings", settings, 0, t)
             inSession == secureSessionSet(inMemory, "stealthModeSettings", settings, SESSION_KEY, t)
         IN  logAuditEvent(updateUserDataForPanic(inSession, userId, t), userId,
                           "security_setting_changed", t)

-----------------------------------------------------------------------------
(* AuthContext and the Vault page *)

MasterPasswords == {<<97>>, <<233>>}

\* the password an account is created with
AccountPasswords == {<<97>>}

\* expiry of the masterKey entry in ticks: 300000 ms, and 30 * 60 * 1000 ms
InitialAutoLock == 1

DefaultAutoLockTimeout == 6

\* useState(300000) of autoLockTime, in ticks
AutoLockTimeDefault == 1

NoPassword == [password |-> FALSE]


\* onAuthStateChanged delivers a user: setCurrentUser, the effect on
\* currentUser and initializeStealthModeWithUser
authStateChanged(w, uid, t) ==
    getSettings(updateUserDataForPanic([w EXCEPT !.user = uid], uid, t), t)

\* signUp(email, password, displayName)
signUp(w, password, t) ==
    LET signedIn == authStateChanged(w, UserId, t)
        encryptedVault == encryptData(JSONstringify([passwords |-> <<>>]), password, signedIn.rng)
        encrypted == afterEncrypt(signedIn, encryptedVault)
        vaultKeyHash == hashMasterkey(password, encrypted.rng)
        created == [encrypted EXCEPT
                       !.rng = @ + 1,
                       !.doc = [vault |-> encryptedVault, vaultKeyHash |-> vaultKeyHash,
                                stealthModeSettings |-> Missing]]
    IN  logAuditEvent(created, UserId, "user_created", t)

\* login(email, password) of an account without two-factor authentication
login(w, t) ==
    logAuditEvent(authStateChanged(w, UserId, t), UserId, "user_login", t)

\* updateUserDisplayName(displayName): setDoc with merge creates the document
updateUserDisplayName(w) ==
    IF w.doc = NoDoc
    THEN [w EXCEPT !.doc = [vault |-> <<>>, vaultKeyHash |-> Missing,
                            stealthModeSettings |-> Missing]]
    ELSE w

\* an unlockVault that does not consult the verifier
unlockVaultUnverified(w, accountPassword, t) ==
    IF w.user = NoUser \/ w.doc = NoDoc THEN w
    ELSE LET opened == [w EXCEPT !.unlocked = TRUE, !.key = JsString(accountPassword),
                                 !.lastActivity = t]
             held == secureSet(opened, "masterKey", JsString(accountPassword),
                               DefaultAutoLockTimeout, t)
         IN  logAuditEvent(held, w.user, "vault_unlocked", t)

\* unlockVault(accountPassword) when the rate limit allows the attempt
unlockVault(w, accountPassword, t) ==
    IF w.user = NoUser \/ w.doc = NoDoc THEN w
    ELSE IF w.doc.vaultKeyHash = Missing
    THEN LET encryptedVault == encryptData(JSONstringify([passwords |-> <<>>]),
                                           accountPassword, w.rng)
             encrypted == afterEncrypt(w, encryptedVault)
             vaultKeyHash == hashMasterkey(accountPassword, encrypted.rng)
             updated == [encrypted EXCEPT
                            !.rng = @ + 1,
                            !.doc.vault = encryptedVault,
                            !.doc.vaultKeyHash = vaultKeyHash,
                            !.unlocked = TRUE,
                            !.key = JsString(accountPassword),
                            !.lastActivity = t]
             held == secureSet(updated, "masterKey", JsString(accountPassword),
                               InitialAutoLock, t)
         IN  logAuditEvent(held, w.user, "vault_initialized", t)
    ELSE IF verifyMasterkey(accountPassword, w.doc.vaultKeyHash)
    THEN LET opened == [w EXCEPT !.unlocked = TRUE, !.key = JsString(accountPassword),
                                 !.lastActivity = t]
             held == secureSet(opened, "masterKey", JsString(accountPassword),
                               DefaultAutoLockTimeout, t)
         IN  logAuditEvent(held, w.user, "vault_unlocked", t)
    ELSE logAuditEvent(w, w.user, "vault_unlock_failed", t)

\* unlockVault(accountPassword) ends in a throw: no user, no document, or a
\* verifier that rejects the password
unlockVaultThrows(w, accountPassword) ==
    \/ w.user = NoUser
    \/ w.doc = NoDoc
    \/ /\ w.doc.vaultKeyHash # Missing
       /\ ~verifyMasterkey(accountPassword, w.doc.vaultKeyHash)

\* 15 * 60 * 1000 ms, in ticks
RATE_LIMIT_WINDOW == 3

MAX_ATTEMPTS == 5

\* the instant 0 of Date.now(), more than a window before the page was opened
LongAgo == 0 - (RATE_LIMIT_WINDOW + 1)

NoAttempts == [count |-> 0, lastAttempt |-> LongAgo]

NoHistory == [failedAt |-> <<>>, last |-> "none"]

NoneDone == [last |-> "none", added |-> {}, removed |-> {}]

NoSession == [loginPc |-> "none", listener |-> "none", needsCode |-> FALSE,
              verified |-> FALSE]

\* a checkRateLimit that never limits
checkRateLimitOff(attempts, t) ==
    [limited |-> FALSE,
     attempts |-> IF t - attempts.lastAttempt > RATE_LIMIT_WINDOW
                  THEN [count |-> 0, lastAttempt |-> t] ELSE attempts]

\* checkRateLimit() at time t: the verdict and the unlockAttempts it sets
checkRateLimit(attempts, t) ==
    IF t - attempts.lastAttempt > RATE_LIMIT_WINDOW
    THEN [limited |-> FALSE, attempts |-> [count |-> 0, lastAttempt |-> t]]
    ELSE [limited |-> attempts.count >= MAX_ATTEMPTS, attempts |-> attempts]

\* unlockVault(accountPassword) with its rate limit: how the call ends, the
\* state it leaves and the unlockAttempts it leaves.  The count a failure
\* stores is that of the render the call was made in.
unlockVaultLimited(w, attempts, accountPassword, t) ==
    IF w.user = NoUser THEN [outcome |-> "threw", w |-> w, attempts |-> attempts]
    ELSE LET rate == checkRateLimit(attempts, t)
         IN  IF rate.limited
             THEN [outcome |-> "limited", w |-> w, attempts |-> attempts]
             ELSE IF w.doc = NoDoc
             THEN [outcome |-> "threw", w |-> w, attempts |-> rate.attempts]
             ELSE IF w.doc.vaultKeyHash = Missing
             THEN [outcome |-> "opened", w |-> unlockVault(w, accountPassword, t),
                   attempts |-> rate.attempts]
             ELSE IF verifyMasterkey(accountPassword, w.doc.vaultKeyHash)
             THEN [outcome |-> "opened", w |-> unlockVault(w, accountPassword, t),
                   attempts |-> [count |-> 0, lastAttempt |-> LongAgo]]
             ELSE [outcome |-> "failed", w |-> unlockVault(w, accountPassword, t),
                   attempts |-> [count |-> attempts.count + 1, lastAttempt |-> t]]

\* a lockVault that leaves the vault as it is
lockVaultSkipped(w) == w

\* lockVault()
lockVault(w) ==
    secureRemove([w EXCEPT !.unlocked = FALSE, !.key = Null], "masterKey")

\* signOut(): onAuthStateChanged delivers null, which unregisters the panic
\* key listener
signOut(w, t) ==
    LET signedOut == secureSet([w EXCEPT !.user = NoUser], "panicKey", Null, 0, t)
    IN  secureRemove([signedOut EXCEPT !.unlocked = FALSE], "masterKey")

\* saveVaultData(data)
saveVaultData(w, data, t) ==
    IF w.user = NoUser \/ ~w.unlocked \/ w.key = Null \/ w.doc = NoDoc THEN w
    ELSE LET encryptedData == encryptData(JSONstringify(data), w.key.str, w.rng)
             saved == [afterEncrypt(w, encryptedData) EXCEPT !.doc.vault = encryptedData]
         IN  logAuditEvent(saved, w.user, "vault_update", t)

\* updateMasterKey(currentMasterkey, newMasterkey).  verifyMasterkey and
\* hashMasterkey are async and not awaited: isValid is a Promise, which is
\* truthy, and newKeyHash is a Promise, which updateDoc rejects.
updateMasterKey(w, currentMasterkey, newMasterkey, t) ==
    IF w.user = NoUser \/ ~w.unlocked \/ w.doc = NoDoc THEN w
    ELSE IF w.doc.vaultKeyHash = Missing THEN w
    ELSE LET hashing == [w EXCEPT !.rng = @ + 1]
         IN  IF w.doc.vault # <<>>
             THEN LET decryptedData == decryptData(w.doc.vault, currentMasterkey)
                  IN  IF ~decryptedData.ok THEN hashing
                      ELSE afterEncrypt(hashing,
                               encryptData(decryptedData.value, newMasterkey, hashing.rng))
             ELSE hashing

RECURSIVE MapEntries(_, _)
\* passwords.map(p => p.id === id ? updated : p)
MapEntries(es, id) ==
    IF es = <<>> THEN <<>>
    ELSE <<IF es[1] \div 10 = id THEN 10 * id + (1 - (es[1] % 10)) ELSE es[1]>>
         \o MapEntries(Tail(es), id)

RECURSIVE FilterEntries(_, _)
\* passwords.filter(p => p.id !== id)
FilterEntries(es, id) ==
    IF es = <<>> THEN <<>>
    ELSE (IF es[1] \div 10 = id THEN <<>> ELSE <<es[1]>>) \o FilterEntries(Tail(es), id)

\* the change a handler makes to vaultData.passwords
Change(es, op, arg) ==
    IF op = "add" THEN Append(es, arg)
    ELSE IF op = "update" THEN MapEntries(es, arg)
    ELSE FilterEntries(es, arg)

\* a handler of the Vault page: recall the key from custody, read and decrypt
\* the stored vault, change the entries, encrypt and store
rewriteVault(w, t, op, arg) ==
    IF ~w.unlocked \/ w.user = NoUser THEN w
    ELSE LET recalled == secureGet(w, "masterKey", t)
             w1 == recalled.st
         IN  IF recalled.value = Null THEN w1
             ELSE IF w1.doc = NoDoc THEN w1
             ELSE IF w1.doc.vault = <<>> THEN w1
             ELSE LET decryptedData == decryptData(w1.doc.vault, recalled.value.str)
                  IN  IF ~decryptedData.ok THEN w1
                      ELSE LET vaultData == JSONparse(decryptedData.value)
                               changed == [passwords |-> Change(vaultData.passwords, op, arg)]
                               encryptedVault == encryptData(JSONstringify(changed),
                                                             recalled.value.str, w1.rng)
                           IN  [afterEncrypt(w1, encryptedVault)
                                   EXCEPT !.doc.vault = encryptedVault]

handleAddPassword(w, entry, t) == rewriteVault(w, t, "add", entry)

handleUpdatePassword(w, id, t) == rewriteVault(w, t, "update", id)

confirmDeletePassword(w, id, t) == rewriteVault(w, t, "delete", id)

\* !vaultData.passwords || !Array.isArray(vaultData.passwords) is false
HasPasswordsList(vaultData) == DOMAIN vaultData = {"passwords"}

NoError == "none"

LoadFailed == "Failed to load passwords. Please try again."

\* loadPasswords() of the Vault page at time t: the list it sets, the error
\* it sets and the state it leaves
loadPasswords(w, t) ==
    IF w.user = NoUser \/ ~w.unlocked
    THEN [passwords |-> <<>>, error |-> NoError, w |-> w]
    ELSE LET recalled == secureGet(w, "masterKey", t)
             w1 == recalled.st
         IN  IF recalled.value = Null \/ w1.doc = NoDoc
             THEN [passwords |-> <<>>, error |-> NoError, w |-> w1]
             ELSE IF w1.doc.vault = <<>>
             THEN [passwords |-> <<>>, error |-> NoError, w |-> w1]
             ELSE LET decryptedData == decryptData(w1.doc.vault, recalled.value.str)
                  IN  IF ~decryptedData.ok \/ ~IsJSON(decryptedData.value)
                      THEN [passwords |-> <<>>, error |-> LoadFailed, w |-> w1]
                      ELSE LET vaultData == JSONparse(decryptedData.value)
                           IN  IF ~HasPasswordsList(vaultData)
                               THEN [passwords |-> <<>>, error |-> NoError, w |-> w1]
                               ELSE [passwords |-> vaultData.passwords,
                                     error |-> NoError, w |-> w1]

\* loadVaultData() at time t: what it returns and the state it leaves; it
\* throws nothing
loadVaultData(w, t) ==
    IF w.user = NoUser \/ ~w.unlocked \/ w.doc = NoDoc
    THEN [returned |-> Null, w |-> w]
    ELSE IF w.doc.vault = <<>> THEN [returned |-> Null, w |-> w]
    ELSE LET recalled == secureGet(w, "masterKey", t)
             w1 == recalled.st
         IN  IF recalled.value = Null THEN [returned |-> Null, w |-> w1]
             ELSE LET decryptedData == decryptData(w1.doc.vault, recalled.value.str)
                  IN  IF ~decryptedData.ok \/ ~IsJSON(decryptedData.value)
                      THEN [returned |-> Null, w |-> w1]
                      ELSE [returned |-> JSONparse(decryptedData.value),
                            w |-> logAuditEvent(w1, w.user, "vault_access", t)]

\* updateUserMasterkey(currentMasterkey, newMasterkey).  verifyMasterkey and
\* hashMasterkey are async and not awaited: isValidHash is a Promise, which is
\* truthy, and newHashedKey is a Promise, which the second updateDoc rejects
\* after the first has stored the re-encrypted vault.
updateUserMasterkey(w, currentMasterkey, newMasterkey, t) ==
    IF w.user = NoUser \/ ~w.unlocked \/ w.doc = NoDoc THEN w
    ELSE IF w.doc.vaultKeyHash = Missing THEN w
    ELSE LET direct == /\ w.doc.vault # <<>>
                       /\ decryptData(w.doc.vault, currentMasterkey).ok
                       /\ IsJSON(decryptData(w.doc.vault, currentMasterkey).value)
             fallback == loadVaultData(w, t)
             vaultData == IF direct
                          THEN JSONparse(decryptData(w.doc.vault, currentMasterkey).value)
                          ELSE fallback.returned
             loaded1 == IF direct THEN w ELSE fallback.w
         IN  IF vaultData = Null THEN loaded1
             ELSE LET newEncryptedVault == encryptData(JSONstringify(vaultData),
                                                       newMasterkey, loaded1.rng)
                      stored == [afterEncrypt(loaded1, newEncryptedVault) EXCEPT
                                    !.doc.vault = newEncryptedVault]
                  IN  [stored EXCEPT !.rng = @ + 1]

\* reauthenticateWithCredential(currentUser, credential) against the password
\* Firebase Auth holds
reauthenticateWithCredential(held, password) == held = password

\* deleteAccount(password), reauthenticated being the outcome of its
\* challenge; currentUser.delete() signs the user out, which unregisters the
\* panic key listener
deleteAccount(w, reauthenticated, t) ==
    IF w.user = NoUser \/ ~reauthenticated THEN w
    ELSE LET deleted == [w EXCEPT !.doc = NoDoc, !.user = NoUser]
             signedOut == secureSet(deleted, "panicKey", Null, 0, t)
             cleared == clearAllSecureSessionData(clearAllSecureData(signedOut))
         IN  [cleared EXCEPT !.unlocked = FALSE, !.key = Null]

\* updateUserPassword(currentPassword, newPassword) with a newPassword that
\* passes the length and character checks, reauthenticated being the outcome
\* of its challenge; updatePassword itself acts on Firebase Auth
updateUserPassword(w, reauthenticated, t) ==
    IF w.user = NoUser \/ ~reauthenticated THEN w
    ELSE logAuditEvent(w, w.user, "password_updated", t)

\* handleActivity of the idle effect: mousemove, keydown, touchstart, click
handleActivity(w, t) == [w EXCEPT !.lastActivity = t]

\* updateAutoLockTime(time): updateDoc fails on a missing document
updateAutoLockTime(w, time) ==
    IF w.user = NoUser \/ w.doc = NoDoc THEN w
    ELSE [w EXCEPT !.autoLockTime = time]

\* an idle check that locks only once the limit is exceeded
idleLimitExceeded(unlocked, limit, currentIdleTime) ==
    unlocked /\ limit > 0 /\ currentIdleTime > limit

\* the condition of the interval's callback
idleLimitReached(unlocked, limit, currentIdleTime) ==
    unlocked /\ limit > 0 /\ currentIdleTime >= limit

\* the callback of setInterval(..., 60000) at time t
idleInterval(w, t) ==
    IF idleLimitReached(w.unlocked, w.autoLockTime, t - w.lastActivity)
    THEN lockVault(w)
    ELSE w

-----------------------------------------------------------------------------
(* The application: one page of one user *)

NoPending == [pending |-> FALSE]

NoOverlap == [overlapped |-> FALSE]

NotVerified == [verified |-> FALSE]

NotLoaded == [by |-> "none"]

NoAttempt == [state |-> "none"]

NoSensitive == [op |-> "none"]

NoCheck == [ran |-> FALSE]

EmptyClipboard == [empty |-> TRUE]

NoClear == [cleared |-> FALSE]

\* the page has not been replaced by the panic redirect
PageAlive == panicPc # "redirected"

VaultContents == {[passwords |-> <<10>>]}

\* the ids of the entries in the stored vault
StoredIds ==
    IF userDoc = NoDoc THEN {}
    ELSE IF userDoc.vault = <<>> THEN {}
    ELSE LET es == JSONparse(arrayBufferToString(userDoc.vault[3].b64.pt)).passwords
         IN  {es[i] \div 10 : i \in 1..Len(es)}

AppIdle ==
    /\ sessionStorage = [k \in SessionKeys |-> Absent]
    /\ rng = 0
    /\ produced = <<>>
    /\ cachedSessionLoggingKey = Null
    /\ auditLogs = <<>>
    /\ authAccount = FALSE
    /\ authPassword = NoPassword
    /\ userDoc = NoDoc
    /\ currentUser = NoUser
    /\ vaultUnlocked = FALSE
    /\ masterKey = Null
    /\ autoLockTime = AutoLockTimeDefault
    /\ lastActivity = 0
    /\ panicPc = "idle"
    /\ panicKnownUid = NoUser
    /\ lockLogPending = NoPending
    /\ inFlight = <<>>
    /\ overlap = NoOverlap
    /\ retained = <<>>
    /\ tampered = 0
    /\ verifyResult = NotVerified
    /\ unloaded = FALSE
    /\ loaded = NotLoaded
    /\ attempt = NoAttempt
    /\ sensitive = NoSensitive
    /\ checkDue = FALSE
    /\ idleCheck = NoCheck
    /\ clipboard = EmptyClipboard
    /\ clipboardSettings = Absent
    /\ clipboardTimers = {}
    /\ clipboardCleared = NoClear
    /\ unlockAttempts = NoAttempts
    /\ unlockHistory = NoHistory
    /\ panicFailed = {}
    /\ passwords = <<>>
    /\ mutations = {}
    /\ vaultDone = NoneDone
    /\ isAuthenticated = FALSE
    /\ twoFactorEnabled = FALSE
    /\ gate = NoSession

\* a handler ran to completion: the state it leaves
Step(w) ==
    /\ w.rng <= MaxRandom
    /\ SetW(w)
    /\ UNCHANGED <<cipherVars, now, lastHold, holds, auditVars, hostVars, uiVars, opVars>>

\* create-test-user.js: an account without a document
CreateTestUser ==
    /\ PageAlive
    /\ ~authAccount
    /\ authAccount' = TRUE
    /\ authPassword' \in AccountPasswords
    /\ Step(W)
    /\ UNCHANGED <<panicPc, panicKnownUid, lockLogPending>>

SignUp(password) ==
    /\ PageAlive
    /\ ~authAccount
    /\ currentUser = NoUser
    /\ authAccount' = TRUE
    /\ authPassword' = password
    /\ Step(signUp(W, password, now))
    /\ UNCHANGED <<panicPc, panicKnownUid, lockLogPending>>

Login ==
    /\ PageAlive
    /\ authAccount
    /\ currentUser = NoUser
    /\ Step(login(W, now))
    /\ UNCHANGED <<authAccount, authPassword, panicPc, panicKnownUid, lockLogPending>>

UpdateUserDisplayName ==
    /\ PageAlive
    /\ currentUser # NoUser
    /\ userDoc = NoDoc
    /\ Step(updateUserDisplayName(W))
    /\ UNCHANGED <<authAccount, authPassword, panicPc, panicKnownUid, lockLogPending>>

UnlockVault(accountPassword) ==
    /\ PageAlive
    /\ currentUser # NoUser
    /\ userDoc # NoDoc
    /\ Step(unlockVault(W, accountPassword, now))
    /\ UNCHANGED <<authAccount, authPassword, panicPc, panicKnownUid, lockLogPending>>

LockVault ==
    /\ PageAlive
    /\ vaultUnlocked
    /\ Step(lockVault(W))
    /\ UNCHANGED <<authAccount, authPassword, panicPc, panicKnownUid, lockLogPending>>

SignOut ==
    /\ PageAlive
    /\ currentUser # NoUser
    /\ Step(signOut(W, now))
    /\ UNCHANGED <<authAccount, authPassword, panicPc, panicKnownUid, lockLogPending>>

SaveVaultData(data) ==
    /\ PageAlive
    /\ currentUser # NoUser
    /\ vaultUnlocked
    /\ masterKey # Null
    /\ userDoc # NoDoc
    /\ Step(saveVaultData(W, data, now))
    /\ UNCHANGED <<authAccount, authPassword, panicPc, panicKnownUid, lockLogPending>>

UpdateMasterKey(currentMasterkey, newMasterkey) ==
    /\ PageAlive
    /\ currentUser # NoUser
    /\ vaultUnlocked
    /\ userDoc # NoDoc
    /\ Step(updateMasterKey(W, currentMasterkey, newMasterkey, now))
    /\ UNCHANGED <<authAccount, authPassword, panicPc, panicKnownUid, lockLogPending>>

\* uuidv4() returns an id no entry has
HandleAddPassword(id, rev) ==
    /\ PageAlive
    /\ currentUser # NoUser
    /\ vaultUnlocked
    /\ id \notin StoredIds
    /\ Step(handleAddPassword(W, 10 * id + rev, now))
    /\ UNCHANGED <<authAccount, authPassword, panicPc, panicKnownUid, lockLogPending>>

HandleUpdatePassword(id) ==
    /\ PageAlive
    /\ currentUser # NoUser
    /\ vaultUnlocked
    /\ Step(handleUpdatePassword(W, id, now))
    /\ UNCHANGED <<authAccount, authPassword, panicPc, panicKnownUid, lockLogPending>>

ConfirmDeletePassword(id) ==
    /\ PageAlive
    /\ currentUser # NoUser
    /\ vaultUnlocked
    /\ Step(confirmDeletePassword(W, id, now))
    /\ UNCHANGED <<authAccount, authPassword, panicPc, panicKnownUid, lockLogPending>>

SaveSettings ==
    /\ PageAlive
    /\ currentUser # NoUser
    /\ userDoc # NoDoc
    /\ Step(saveSettings(W, currentUser, Settings, now))
    /\ UNCHANGED <<authAccount, authPassword, panicPc, panicKnownUid, lockLogPending>>

-----------------------------------------------------------------------------
(* cryptoUtils exercised on bounded inputs *)

NotRun == [ok |-> FALSE, error |-> "not run"]

Plaintexts == SeqsUpTo(CodeUnits, MaxPlainLen)

Passwords == SeqsUpTo(CodeUnits, MaxPwLen) \ {<<>>}

CipherInit ==
    /\ cPc = "start"
    /\ cP \in Plaintexts
    /\ cK1 \in Passwords
    /\ cK2 \in Passwords
    /\ cEnv = <<>>
    /\ cOut1 = NotRun
    /\ cOut2 = NotRun
    /\ cHashed = NotRun
    /\ cVerified = NotRun
    /\ cMangle = "intact"
    /\ cIn = NotRun
    /\ cOpened = NotRun

CipherIdle ==
    /\ cPc = "idle"
    /\ cP = <<>>
    /\ cK1 = <<97>>
    /\ cK2 = <<97>>
    /\ cEnv = <<>>
    /\ cOut1 = NotRun
    /\ cOut2 = NotRun
    /\ cHashed = NotRun
    /\ cVerified = NotRun
    /\ cMangle = "intact"
    /\ cIn = NotRun
    /\ cOpened = NotRun

CipherEncrypt ==
    /\ cPc = "start"
    /\ cEnv' = encryptData(cP, cK1, 0)
    /\ cPc' = "encrypted"
    /\ UNCHANGED <<cP, cK1, cK2, cOut1, cOut2, cHashed, cVerified, cMangle, cIn, cOpened>>
    /\ UNCHANGED <<custodyVars, appVars>>

CipherDecrypt ==
    /\ cPc = "encrypted"
    /\ cOut1' = decryptData(cEnv, cK1)
    /\ cOut2' = decryptData(cEnv, cK2)
    /\ cPc' = "decrypted"
    /\ UNCHANGED <<cP, cK1, cK2, cEnv, cHashed, cVerified, cMangle, cIn, cOpened>>
    /\ UNCHANGED <<custodyVars, appVars>>

\* hashMasterkey(cK1): the verifier stored for the password
CipherHashMasterkey ==
    /\ cPc = "decrypted"
    /\ cHashed' = hashMasterkey(cK1, 2)
    /\ cPc' = "hashed"
    /\ UNCHANGED <<cP, cK1, cK2, cEnv, cOut1, cOut2, cVerified, cMangle, cIn, cOpened>>
    /\ UNCHANGED <<custodyVars, appVars>>

\* verifyMasterkey against the verifier, with the same and with the second password
CipherVerifyMasterkey ==
    /\ cPc = "hashed"
    /\ cVerified' = [same |-> verifyMasterkey(cK1, cHashed),
                     other |-> verifyMasterkey(cK2, cHashed)]
    /\ cPc' = "verified"
    /\ UNCHANGED <<cP, cK1, cK2, cEnv, cOut1, cOut2, cHashed, cMangle, cIn, cOpened>>
    /\ UNCHANGED <<custodyVars, appVars>>

CipherNext ==
    CipherEncrypt \/ CipherDecrypt \/ CipherHashMasterkey \/ CipherVerifyMasterkey

InitCipher == CipherInit /\ CustodyInit /\ AppIdle

\* bytes with one bit inverted
BitFlip(bytes) == [flipped |-> bytes]

\* a field holding a character that is not of the base64 alphabet
NotBase64 == [raw |-> <<42>>]

BitFlips == {"flipSalt", "flipIv", "flipCt"}

Mangles == BitFlips \cup {"intact", "one", "two", "four", "trailingColon",
                          "emptySalt", "emptyIv", "emptyCt",
                          "badSalt", "badIv", "badCt"}

\* the fields of an envelope of cryptoUtils after the change m
Mangle(env, m) ==
    CASE m = "flipSalt" -> [env EXCEPT ![1] = arrayBufferToBase64(BitFlip(@.b64))]
      [] m = "flipIv" -> [env EXCEPT ![2] = arrayBufferToBase64(BitFlip(@.b64))]
      [] m = "flipCt" -> [env EXCEPT ![3] = arrayBufferToBase64(BitFlip(@.b64))]
      [] m = "one" -> SubSeq(env, 1, 1)
      [] m = "two" -> SubSeq(env, 1, 2)
      [] m = "four" -> env \o <<env[1]>>
      [] m = "trailingColon" -> env \o << <<>> >>
      [] m = "emptySalt" -> [env EXCEPT ![1] = <<>>]
      [] m = "emptyIv" -> [env EXCEPT ![2] = <<>>]
      [] m = "emptyCt" -> [env EXCEPT ![3] = <<>>]
      [] m = "badSalt" -> [env EXCEPT ![1] = NotBase64]
      [] m = "badIv" -> [env EXCEPT ![2] = NotBase64]
      [] m = "badCt" -> [env EXCEPT ![3] = NotBase64]
      [] OTHER -> env

\* an envelope of PasswordCrypto with one bit inverted in a slice
MangleLib(ciphertext, m) ==
    LET data == base64ToArrayBuffer(ciphertext)
    IN  CASE m = "flipSalt" -> arrayBufferToBase64([data EXCEPT ![1] = BitFlip(@)])
          [] m = "flipIv" -> arrayBufferToBase64([data EXCEPT ![2] = BitFlip(@)])
          [] m = "flipCt" -> arrayBufferToBase64([data EXCEPT ![3] = BitFlip(@)])
          [] OTHER -> ciphertext

EnvelopeInit ==
    /\ cPc = "start"
    /\ cP \in {p \in Plaintexts : Len(p) <= 1}
    /\ cK1 \in Passwords
    /\ cK2 \in {<<97>>, <<233>>}
    /\ cEnv = <<>>
    /\ cOut1 = NotRun
    /\ cOut2 = NotRun
    /\ cHashed = NotRun
    /\ cVerified = NotRun
    /\ cMangle \in Mangles
    /\ cIn = NotRun
    /\ cOpened = NotRun

\* the envelope is changed on its way back to the decrypting functions
EnvelopeMangle ==
    /\ cPc = "encrypted"
    /\ cIn' = [utils |-> Mangle(cEnv, cMangle),
               lib |-> MangleLib(PasswordCryptoEncrypt(cP, cK1, 2), cMangle)]
    /\ cPc' = "mangled"
    /\ UNCHANGED <<cP, cK1, cK2, cEnv, cOut1, cOut2, cHashed, cVerified, cMangle, cOpened>>
    /\ UNCHANGED <<custodyVars, appVars>>

\* each decrypting function is given the changed envelope with the right
\* password, and the unchanged envelope with the second password
EnvelopeOpen ==
    /\ cPc = "mangled"
    /\ cOpened' =
           [given |-> [utils |-> decryptData(cIn.utils, cK1),
                       wrapper |-> encryptionDecryptData(cIn.utils, cK1),
                       lib |-> PasswordCryptoDecrypt(cIn.lib, cK1)],
            wrong |-> [utils |-> decryptData(cEnv, cK2),
                       wrapper |-> encryptionDecryptData(cEnv, cK2),
                       lib |-> PasswordCryptoDecrypt(PasswordCryptoEncrypt(cP, cK1, 2), cK2)]]
    /\ cPc' = "opened"
    /\ UNCHANGED <<cP, cK1, cK2, cEnv, cOut1, cOut2, cHashed, cVerified, cMangle, cIn>>
    /\ UNCHANGED <<custodyVars, appVars>>

EnvelopeNext == CipherEncrypt \/ EnvelopeMangle \/ EnvelopeOpen

InitEnvelope == EnvelopeInit /\ CustodyInit /\ AppIdle

SpecEnvelope == InitEnvelope /\ [][EnvelopeNext]_vars

SpecCipher == InitCipher /\ [][CipherNext]_vars

InitCustody == CipherIdle /\ CustodyInit /\ AppIdle

SpecCustody == InitCustody /\ [][CustodyNext]_vars

-----------------------------------------------------------------------------
(* triggerPanic, step by step, and the application's specification *)

\* the panic signal arrives: triggerPanic starts and awaits getSettings
TriggerPanic ==
    /\ PageAlive
    /\ panicPc = "idle"
    /\ panicPc' = "settings"
    /\ panicKnownUid' = (LET userData == secureGet(W, "userPanicData", now).value
                         IN  IF DOMAIN userData = {"uid"} THEN userData.uid ELSE NoUser)
    /\ Step(W)
    /\ UNCHANGED <<authAccount, authPassword, lockLogPending>>

\* getSettings returns; both tiers are cleared; the clipboard write is awaited
PanicClear ==
    /\ panicPc = "settings"
    /\ panicPc' = "clipboard"
    /\ Step(clearAllSecureSessionData(clearAllSecureData(getSettings(W, now))))
    /\ UNCHANGED <<authAccount, authPassword, panicKnownUid, lockLogPending>>

\* 'lock-vault' is dispatched: handlePanicMode locks the vault and starts a
\* logAuditEvent it does not await.  Then userPanicData is read: with a uid
\* the panic record is logged before the redirect, without one the redirect
\* is issued at once.
PanicDispatch ==
    /\ panicPc = "clipboard"
    /\ LET locked == lockVault(W)
           started == logAuditEventStart(locked, currentUser, "vault_locked", now)
           w == IF currentUser # NoUser THEN started.w ELSE locked
           userData == secureGet(w, "userPanicData", now).value
       IN  /\ lockLogPending' = IF currentUser # NoUser
                                THEN [pending |-> TRUE, logEntry |-> started.logEntry]
                                ELSE lockLogPending
           /\ panicPc' = IF DOMAIN userData = {"uid"} THEN "logging" ELSE "redirected"
           /\ Step(w)
    /\ UNCHANGED <<authAccount, authPassword, panicKnownUid>>

\* the awaited logAuditEvent of triggerPanic completes and the redirect is issued
PanicLogged ==
    /\ panicPc = "logging"
    /\ panicPc' = "redirected"
    /\ Step(logAuditEvent(W, UserId, "panic_triggered", now))
    /\ UNCHANGED <<authAccount, authPassword, panicKnownUid, lockLogPending>>

\* the logAuditEvent handlePanicMode started runs to its end
CompleteLockLog ==
    /\ PageAlive
    /\ lockLogPending # NoPending
    /\ lockLogPending' = NoPending
    /\ Step(logAuditEventFinish(W, lockLogPending.logEntry, now))
    /\ UNCHANGED <<authAccount, authPassword, panicPc, panicKnownUid>>

Init ==
    /\ CipherIdle
    /\ now = 0
    /\ inMemoryStorage = [k \in AppKeys |-> Absent]
    /\ timers = {}
    /\ nextTimerId = 1
    /\ lastHold = [k \in Keys |-> NoHold]
    /\ holds = [k \in Keys |-> 0]
    /\ AppIdle

Next ==
    \/ CreateTestUser
    \/ \E password \in AccountPasswords : SignUp(password)
    \/ Login
    \/ UpdateUserDisplayName
    \/ \E accountPassword \in MasterPasswords : UnlockVault(accountPassword)
    \/ LockVault
    \/ SignOut
    \/ \E data \in VaultContents : SaveVaultData(data)
    \/ \E cur \in MasterPasswords, new \in MasterPasswords : UpdateMasterKey(cur, new)
    \/ \E id \in EntryIds : HandleAddPassword(id, 0)
    \/ \E id \in EntryIds : HandleUpdatePassword(id)
    \/ \E id \in EntryIds : ConfirmDeletePassword(id)
    \/ SaveSettings
    \/ TriggerPanic
    \/ PanicClear
    \/ PanicDispatch
    \/ PanicLogged
    \/ CompleteLockLog
    \* the clock is observed through expiries and timestamps only: it advances
    \* while an expiry is pending, and the awaits of triggerPanic are shorter
    \* than a tick
    \/ \E t \in timers : PageAlive /\ TimerFire(t) /\ UNCHANGED <<cipherVars, appVars>>
    \/ panicPc = "idle" /\ timers # {} /\ Tick /\ UNCHANGED <<cipherVars, appVars>>

Spec == Init /\ [][Next]_vars

-----------------------------------------------------------------------------
(* auditLogger called directly: logAuditEvent calls that may overlap, a
   stored record altered behind the logger's back, and verification *)

AuditEventTypes == {"panic_triggered", "vault_locked"}

\* a handler of the logger ran: the state it leaves
AuditStep(w) ==
    /\ w.rng <= MaxRandom
    /\ SetW(w)
    /\ UNCHANGED <<cipherVars, now, lastHold, holds, hostVars, uiVars, opVars>>
    /\ UNCHANGED <<authAccount, authPassword, panicPc, panicKnownUid, lockLogPending>>

\* a call of logAuditEvent runs up to its await of storeLogEntry
AuditStart(eventType) ==
    /\ Len(inFlight) < MaxInFlight
    /\ Len(auditLogs) + Len(inFlight) < MaxLogged
    /\ LET started == logAuditEventStart(W, UserId, eventType, now)
       IN  /\ inFlight' = Append(inFlight, started.logEntry)
           /\ overlap' = IF inFlight # <<>> /\ overlap = NoOverlap
                         THEN [overlapped |-> TRUE, first |-> inFlight[Len(inFlight)],
                               second |-> started.logEntry]
                         ELSE overlap
           /\ AuditStep(started.w)
    /\ verifyResult' = NotVerified
    /\ UNCHANGED <<retained, tampered>>

\* the i-th call in flight stores its entry and writes it to the collection
AuditFinish(i) ==
    /\ i \in 1..Len(inFlight)
    /\ retained' = logsToStore(getSessionLoggingKey(W, now).w, inFlight[i], now)
    /\ AuditStep(logAuditEventFinish(W, inFlight[i], now))
    /\ inFlight' = SubSeq(inFlight, 1, i - 1) \o SubSeq(inFlight, i + 1, Len(inFlight))
    /\ verifyResult' = NotVerified
    /\ UNCHANGED <<overlap, tampered>>

\* the description of the i-th record of the collection is altered
AuditTamper(i) ==
    /\ tampered = 0
    /\ inFlight = <<>>
    /\ i \in 1..Len(auditLogs)
    /\ tampered' = i
    /\ AuditStep([W EXCEPT !.logs[i].description = [of |-> "altered"]])
    /\ verifyResult' = NotVerified
    /\ UNCHANGED <<inFlight, overlap, retained>>

AuditVerify ==
    /\ inFlight = <<>>
    /\ auditLogs # <<>>
    /\ verifyResult = NotVerified
    /\ LET verified == verifyAuditLogIntegrity(W, UserId, now)
       IN  /\ verifyResult' = verified.result
           /\ AuditStep(verified.w)
    /\ UNCHANGED <<inFlight, overlap, retained, tampered>>

AuditNext ==
    \/ \E eventType \in AuditEventTypes : AuditStart(eventType)
    \/ \E i \in 1..MaxInFlight : AuditFinish(i)
    \/ \E i \in 1..MaxLogged : AuditTamper(i)
    \/ AuditVerify
    \/ Tick /\ UNCHANGED <<cipherVars, appVars>>

InitAudit ==
    /\ CipherIdle
    /\ now = 0
    /\ inMemoryStorage = [k \in AppKeys |-> Absent]
    /\ timers = {}
    /\ nextTimerId = 1
    /\ lastHold = [k \in Keys |-> NoHold]
    /\ holds = [k \in Keys |-> 0]
    /\ AppIdle

SpecAudit == InitAudit /\ [][AuditNext]_vars

-----------------------------------------------------------------------------
(* Loading the vault: whatever saveVaultData was given is stored, and the
   two loaders read it back *)

LoadContents == VaultContents \cup {Undefined, NoPasswordsField, PasswordsNotList}

\* the payload the stored vault decrypts to under the key in custody is not
\* a vault: it does not parse, or it has no list of passwords
PayloadMalformed ==
    LET recalled == secureGet(W, "masterKey", now).value
        decryptedData == decryptData(userDoc.vault, recalled.str)
    IN  /\ recalled # Null
        /\ decryptedData.ok
        /\ \/ ~IsJSON(decryptedData.value)
           \/ ~HasPasswordsList(JSONparse(decryptedData.value))

LoadStep(w) ==
    /\ w.rng <= MaxRandom
    /\ SetW(w)
    /\ UNCHANGED <<cipherVars, now, lastHold, holds, auditVars, unloaded, uiVars, opVars>>
    /\ UNCHANGED <<authAccount, authPassword, panicPc, panicKnownUid, lockLogPending>>

LoadPasswords ==
    /\ currentUser # NoUser
    /\ vaultUnlocked
    /\ userDoc # NoDoc
    /\ LET call == loadPasswords(W, now)
       IN  /\ loaded' = [by |-> "loadPasswords", malformed |-> PayloadMalformed,
                         empty |-> call.passwords = <<>>, error |-> call.error]
           /\ LoadStep(call.w)

LoadVaultData ==
    /\ currentUser # NoUser
    /\ vaultUnlocked
    /\ userDoc # NoDoc
    /\ LET call == loadVaultData(W, now)
       IN  /\ loaded' = [by |-> "loadVaultData", malformed |-> PayloadMalformed,
                         empty |-> call.returned = Null, error |-> NoError]
           /\ LoadStep(call.w)

LoadNext ==
    \/ \E password \in AccountPasswords : SignUp(password)
    \/ \E accountPassword \in MasterPasswords : UnlockVault(accountPassword)
    \/ \E data \in LoadContents : SaveVaultData(data)
    \/ LoadPasswords
    \/ LoadVaultData
    \/ Tick /\ UNCHANGED <<cipherVars, appVars>>

InitLoad ==
    /\ CipherIdle
    /\ now = 0
    /\ inMemoryStorage = [k \in AppKeys |-> Absent]
    /\ timers = {}
    /\ nextTimerId = 1
    /\ lastHold = [k \in Keys |-> NoHold]
    /\ holds = [k \in Keys |-> 0]
    /\ AppIdle

SpecLoad == InitLoad /\ [][LoadNext]_vars

-----------------------------------------------------------------------------
(* MasterkeyForm: handleSubmit, its timeout of 12 seconds and the
   unlockVault call it awaits *)

\* handleSubmit up to its await: setLoading(true), the timeout is scheduled
\* and unlockVault(accountPassword) is called
FormSubmit(accountPassword) ==
    /\ currentUser # NoUser
    /\ userDoc # NoDoc
    /\ ~vaultUnlocked
    /\ attempt.state # "pending"
    /\ attempt' = [state |-> "pending", password |-> accountPassword, timedOut |-> FALSE]
    /\ UNCHANGED <<cipherVars, custodyVars, appCoreVars, hostVars, opVars>>

\* the callback of setTimeout(..., 12000) runs while unlockVault is awaited:
\* setLoading(false) and the "Unlock Timeout" toast
FormTimeout ==
    /\ attempt.state = "pending"
    /\ ~attempt.timedOut
    /\ attempt' = [attempt EXCEPT !.timedOut = TRUE]
    /\ UNCHANGED <<cipherVars, custodyVars, appCoreVars, hostVars, opVars>>

\* unlockVault settles and handleSubmit resumes: clearTimeout(timeout), then
\* the toast of the outcome
FormSettle ==
    /\ attempt.state = "pending"
    /\ LET w == unlockVault(W, attempt.password, now)
       IN  /\ w.rng <= MaxRandom
           /\ SetW(w)
    /\ attempt' = [attempt EXCEPT !.state = "settled"]
    /\ UNCHANGED <<cipherVars, now, lastHold, holds, auditVars, hostVars, opVars>>
    /\ UNCHANGED <<authAccount, authPassword, panicPc, panicKnownUid, lockLogPending>>

UnlockNext ==
    \/ \E password \in AccountPasswords : SignUp(password)
    \/ \E accountPassword \in MasterPasswords : FormSubmit(accountPassword)
    \/ FormTimeout
    \/ FormSettle
    \/ LockVault
    \/ Tick /\ UNCHANGED <<cipherVars, appVars>>

InitUnlock ==
    /\ CipherIdle
    /\ now = 0
    /\ inMemoryStorage = [k \in AppKeys |-> Absent]
    /\ timers = {}
    /\ nextTimerId = 1
    /\ lastHold = [k \in Keys |-> NoHold]
    /\ holds = [k \in Keys |-> 0]
    /\ AppIdle

SpecUnlock == InitUnlock /\ [][UnlockNext]_vars

-----------------------------------------------------------------------------
(* Master-key rotation and account deletion, with what each call asked of
   Firebase Auth and whether it wrote to the user's document or account *)

SensitiveStep(w, op, challenge, account) ==
    /\ w.rng <= MaxRandom
    /\ SetW(w)
    /\ authAccount' = account
    /\ authPassword' = IF account THEN authPassword ELSE NoPassword
    /\ sensitive' = [op |-> op, challenge |-> challenge,
                     wrote |-> w.doc # userDoc \/ account # authAccount]
    /\ UNCHANGED <<cipherVars, now, lastHold, holds, auditVars, hostVars, uiVars>>
    /\ UNCHANGED <<panicPc, panicKnownUid, lockLogPending, idleVars, clipboardVars, sessionVars, pageVars>>

\* updateMasterKey issues no challenge
RotateMasterKey(currentMasterkey, newMasterkey) ==
    /\ currentUser # NoUser
    /\ vaultUnlocked
    /\ userDoc # NoDoc
    /\ SensitiveStep(updateMasterKey(W, currentMasterkey, newMasterkey, now),
                     "updateMasterKey", "none", authAccount)

\* updateUserMasterkey issues no challenge
RotateUserMasterkey(currentMasterkey, newMasterkey) ==
    /\ currentUser # NoUser
    /\ vaultUnlocked
    /\ userDoc # NoDoc
    /\ SensitiveStep(updateUserMasterkey(W, currentMasterkey, newMasterkey, now),
                     "updateUserMasterkey", "none", authAccount)

DeleteAccount(password) ==
    /\ currentUser # NoUser
    /\ LET reauthenticated == reauthenticateWithCredential(authPassword, password)
       IN  SensitiveStep(deleteAccount(W, reauthenticated, now), "deleteAccount",
                         IF reauthenticated THEN "passed" ELSE "failed",
                         authAccount /\ ~reauthenticated)

SensitiveNext ==
    \/ \E password \in AccountPasswords : SignUp(password)
    \/ \E accountPassword \in MasterPasswords : UnlockVault(accountPassword)
    \/ \E id \in EntryIds : HandleAddPassword(id, 0)
    \/ \E cur \in MasterPasswords, new \in MasterPasswords : RotateMasterKey(cur, new)
    \/ \E cur \in MasterPasswords, new \in MasterPasswords : RotateUserMasterkey(cur, new)
    \/ \E password \in MasterPasswords : DeleteAccount(password)
    \/ Tick /\ UNCHANGED <<cipherVars, appVars>>

InitSensitive ==
    /\ CipherIdle
    /\ now = 0
    /\ inMemoryStorage = [k \in AppKeys |-> Absent]
    /\ timers = {}
    /\ nextTimerId = 1
    /\ lastHold = [k \in Keys |-> NoHold]
    /\ holds = [k \in Keys |-> 0]
    /\ AppIdle

SpecSensitive == InitSensitive /\ [][SensitiveNext]_vars

-----------------------------------------------------------------------------
(* Change Password: updateUserPassword beside unlocking and locking *)

UpdateUserPassword(currentPassword, newPassword) ==
    /\ currentUser # NoUser
    /\ LET reauthenticated == reauthenticateWithCredential(authPassword, currentPassword)
           w == updateUserPassword(W, reauthenticated, now)
       IN  /\ w.rng <= MaxRandom
           /\ SetW(w)
           /\ authPassword' = IF reauthenticated THEN newPassword ELSE authPassword
           /\ sensitive' = [op |-> "updateUserPassword",
                            challenge |-> IF reauthenticated THEN "passed" ELSE "failed",
                            wrote |-> reauthenticated]
    /\ UNCHANGED <<cipherVars, now, lastHold, holds, auditVars, hostVars, uiVars>>
    /\ UNCHANGED <<authAccount, panicPc, panicKnownUid, lockLogPending>>
    /\ UNCHANGED <<idleVars, clipboardVars, sessionVars, pageVars>>

PasswordNext ==
    \/ \E password \in AccountPasswords : SignUp(password)
    \/ \E accountPassword \in MasterPasswords : UnlockVault(accountPassword)
    \/ LockVault
    \/ \E cur \in MasterPasswords, new \in MasterPasswords : UpdateUserPassword(cur, new)
    \/ Tick /\ UNCHANGED <<cipherVars, appVars>>

InitPassword ==
    /\ CipherIdle
    /\ now = 0
    /\ inMemoryStorage = [k \in AppKeys |-> Absent]
    /\ timers = {}
    /\ nextTimerId = 1
    /\ lastHold = [k \in Keys |-> NoHold]
    /\ holds = [k \in Keys |-> 0]
    /\ AppIdle

SpecPassword == InitPassword /\ [][PasswordNext]_vars

-----------------------------------------------------------------------------
(* clipboardUtils: settings in localStorage, copies, and the auto-clear
   timeouts; clearTime is in seconds and a tick is 300 of them *)

DEFAULT_SETTINGS == [autoClear |-> FALSE, clearTime |-> 30]

ClearTimes == {0, 300, 600}

Texts == {<<97>>, <<98>>}

\* the delay settings.clearTime * 1000 of setTimeout, in ticks
ClearDelay(clearTime) == clearTime \div 300

\* getClipboardSettings(userId)
getClipboardSettings(stored) == IF stored = Absent THEN DEFAULT_SETTINGS ELSE stored

\* saveClipboardSettings(userId, settings)
SaveClipboardSettings(settings) ==
    /\ currentUser # NoUser
    /\ clipboardSettings' = settings
    /\ LET w == logAuditEvent(W, currentUser, "clipboard_settings_update", now)
       IN  w.rng <= MaxRandom /\ SetW(w)
    /\ UNCHANGED <<cipherVars, now, lastHold, holds, auditVars, hostVars, uiVars>>
    /\ UNCHANGED <<authAccount, authPassword, panicPc, panicKnownUid, lockLogPending>>
    /\ UNCHANGED <<rotationVars, idleVars, clipboard, clipboardTimers, clipboardCleared, sessionVars, pageVars>>

\* copyToClipboard(text, description, userId)
CopyToClipboard(text) ==
    /\ currentUser # NoUser
    /\ LET settings == getClipboardSettings(clipboardSettings)
           scheduled == settings.autoClear /\ settings.clearTime > 0
       IN  /\ clipboard' = [text |-> text, copiedAt |-> now, scheduled |-> scheduled,
                            clearTime |-> settings.clearTime]
           /\ clipboardTimers' =
                  IF scheduled
                  THEN clipboardTimers \cup
                           {[due |-> now + ClearDelay(settings.clearTime), of |-> now]}
                  ELSE clipboardTimers
    /\ LET w == logAuditEvent(W, currentUser, "clipboard_copy", now)
       IN  w.rng <= MaxRandom /\ SetW(w)
    /\ UNCHANGED <<cipherVars, now, lastHold, holds, auditVars, hostVars, uiVars>>
    /\ UNCHANGED <<authAccount, authPassword, panicPc, panicKnownUid, lockLogPending>>
    /\ UNCHANGED <<rotationVars, idleVars, clipboardSettings, clipboardCleared, sessionVars, pageVars>>

\* an auto-clear timeout runs clearClipboard(userId): writeText('')
ClearClipboard(tm) ==
    /\ tm \in clipboardTimers
    /\ now >= tm.due
    /\ clipboardTimers' = clipboardTimers \ {tm}
    /\ clipboard' = EmptyClipboard
    /\ clipboardCleared' =
           IF clipboard = EmptyClipboard THEN clipboardCleared
           ELSE [cleared |-> TRUE, copiedAt |-> clipboard.copiedAt, at |-> now,
                 clearTime |-> clipboard.clearTime]
    /\ LET w == logAuditEvent(W, currentUser, "clipboard_clear", now)
       IN  w.rng <= MaxRandom /\ SetW(w)
    /\ UNCHANGED <<cipherVars, now, lastHold, holds, auditVars, hostVars, uiVars>>
    /\ UNCHANGED <<authAccount, authPassword, panicPc, panicKnownUid, lockLogPending>>
    /\ UNCHANGED <<rotationVars, idleVars, clipboardSettings, sessionVars, pageVars>>

\* the clock reaches the next tick once the timeouts due by now have run
ClipboardTick ==
    /\ \A tm \in clipboardTimers : tm.due > now
    /\ Tick
    /\ UNCHANGED <<cipherVars, appVars>>

ClipboardNext ==
    \/ CreateTestUser
    \/ Login
    \/ \E autoClear \in BOOLEAN, clearTime \in ClearTimes :
           SaveClipboardSettings([autoClear |-> autoClear, clearTime |-> clearTime])
    \/ \E text \in Texts : CopyToClipboard(text)
    \/ \E tm \in clipboardTimers : ClearClipboard(tm)
    \/ ClipboardTick

InitClipboard ==
    /\ CipherIdle
    /\ now = 0
    /\ inMemoryStorage = [k \in AppKeys |-> Absent]
    /\ timers = {}
    /\ nextTimerId = 1
    /\ lastHold = [k \in Keys |-> NoHold]
    /\ holds = [k \in Keys |-> 0]
    /\ AppIdle

SpecClipboard == InitClipboard /\ [][ClipboardNext]_vars

-----------------------------------------------------------------------------
(* triggerPanic when its steps fail *)

PanicFailures == {"settings", "storage", "clipboard", "logging"}

\* triggerPanic resumes after an await, or reaches its redirect
PanicResume(pc, w, failures) ==
    /\ panicPc' = pc
    /\ \E resumed \in {w} : SetW(resumed)
    /\ panicFailed' = panicFailed \cup failures
    /\ UNCHANGED <<cipherVars, now, lastHold, holds, auditVars, hostVars, uiVars>>
    /\ UNCHANGED <<rotationVars, idleVars, clipboardVars, sessionVars, vaultPageVars, gateVars>>
    /\ UNCHANGED <<authAccount, authPassword, panicKnownUid>>

\* getSettings returns, with DEFAULT_SETTINGS when reading failed; both tiers
\* are cleared; the clipboard write is awaited
PanicCleared(settingsFailed) ==
    /\ panicPc = "settings"
    /\ LET read == IF settingsFailed THEN W ELSE getSettings(W, now)
       IN  PanicResume("clipboard",
                       clearAllSecureSessionData(clearAllSecureData(read)),
                       IF settingsFailed THEN {"settings"} ELSE {})
    /\ UNCHANGED lockLogPending

\* a triggerPanic without its outer catch: the exception ends it
PanicClearThrewUncaught ==
    /\ panicPc = "settings"
    /\ PanicResume("thrown", clearAllSecureData(getSettings(W, now)), {"storage"})
    /\ UNCHANGED lockLogPending

\* getSettings returns and clearAllSecureSessionData throws on sessionStorage:
\* the outer catch issues the redirect
PanicClearThrew ==
    /\ panicPc = "settings"
    /\ PanicResume("redirected", clearAllSecureData(getSettings(W, now)), {"storage"})
    /\ UNCHANGED lockLogPending

\* the clipboard write settles, resolved or rejected; 'lock-vault' is
\* dispatched and userPanicData is read
PanicDispatched(clipboardFailed) ==
    /\ panicPc = "clipboard"
    /\ LET locked == lockVault(W)
           started == logAuditEventStart(locked, currentUser, "vault_locked", now)
           w == IF currentUser # NoUser THEN started.w ELSE locked
           userData == secureGet(w, "userPanicData", now).value
       IN  /\ lockLogPending' = IF currentUser # NoUser
                                THEN [pending |-> TRUE, logEntry |-> started.logEntry]
                                ELSE lockLogPending
           /\ PanicResume(IF DOMAIN userData = {"uid"} THEN "logging" ELSE "redirected",
                          w, IF clipboardFailed THEN {"clipboard"} ELSE {})

\* the awaited logAuditEvent settles, resolved or rejected, and the redirect
\* is issued
PanicLogSettled(logFailed) ==
    /\ panicPc = "logging"
    /\ PanicResume("redirected",
                   IF logFailed THEN W ELSE logAuditEvent(W, UserId, "panic_triggered", now),
                   IF logFailed THEN {"logging"} ELSE {})
    /\ UNCHANGED lockLogPending

\* triggerPanic resumes: the promise it awaits has settled
PanicContinue ==
    \/ \E settingsFailed \in BOOLEAN : PanicCleared(settingsFailed)
    \/ PanicClearThrew
    \/ \E clipboardFailed \in BOOLEAN : PanicDispatched(clipboardFailed)
    \/ \E logFailed \in BOOLEAN : PanicLogSettled(logFailed)

PanicNext ==
    \/ \E password \in AccountPasswords : SignUp(password)
    \/ SaveSettings
    \/ TriggerPanic
    \/ PanicContinue
    \/ CompleteLockLog

InitPanic ==
    /\ CipherIdle
    /\ now = 0
    /\ inMemoryStorage = [k \in AppKeys |-> Absent]
    /\ timers = {}
    /\ nextTimerId = 1
    /\ lastHold = [k \in Keys |-> NoHold]
    /\ holds = [k \in Keys |-> 0]
    /\ AppIdle

\* a settled promise's continuation is run by the event loop
SpecPanic == InitPanic /\ [][PanicNext]_vars /\ WF_vars(PanicContinue)

-----------------------------------------------------------------------------
(* the Vault page: its list, and handler calls that overlap *)

VaultIds == 1..MaxVaultEntries

VaultOps == {"add", "update", "delete"}

\* the ids of a list of entries
IdsOf(es) == {es[i] \div 10 : i \in 1..Len(es)}

\* the list in the stored vault
StoredPasswords ==
    IF userDoc = NoDoc THEN <<>>
    ELSE IF userDoc.vault = <<>> THEN <<>>
    ELSE JSONparse(arrayBufferToString(userDoc.vault[3].b64.pt)).passwords

\* a handler up to its write, on the document getDoc returned: decrypt,
\* change the entries, encrypt, updateDoc.  What it stores, or that it threw.
mutationWrite(w, m, writeFails) ==
    IF m.snapshot = <<>> THEN [ok |-> FALSE, w |-> w]
    ELSE LET decryptedData == decryptData(m.snapshot, m.key.str)
         IN  IF ~decryptedData.ok \/ ~IsJSON(decryptedData.value)
             THEN [ok |-> FALSE, w |-> w]
             ELSE LET vaultData == JSONparse(decryptedData.value)
                  IN  IF m.op = "update" /\ m.arg \notin IdsOf(vaultData.passwords)
                      THEN [ok |-> FALSE, w |-> w]
                      ELSE LET changed == [passwords |->
                                               Change(vaultData.passwords, m.op,
                                                      IF m.op = "add" THEN 10 * m.arg
                                                      ELSE m.arg)]
                               encryptedVault == encryptData(JSONstringify(changed),
                                                             m.key.str, w.rng)
                               encrypted == afterEncrypt(w, encryptedVault)
                           IN  IF writeFails \/ w.doc = NoDoc
                               THEN [ok |-> FALSE, w |-> encrypted]
                               ELSE [ok |-> TRUE,
                                     w |-> [encrypted EXCEPT !.doc.vault = encryptedVault]]

VaultFrame ==
    /\ UNCHANGED <<cipherVars, now, lastHold, holds, auditVars, hostVars, uiVars>>
    /\ UNCHANGED <<authAccount, authPassword, panicPc, panicKnownUid, lockLogPending>>
    /\ UNCHANGED <<rotationVars, idleVars, clipboardVars, sessionVars, panicFailed, gateVars>>

\* a handler is called: it checks vaultUnlocked, recalls the key from custody,
\* handleAddPassword appends to the list, and getDoc returns the document
VaultBegin(op, id) ==
    /\ currentUser # NoUser
    /\ vaultUnlocked
    /\ Cardinality(mutations) < MaxMutations
    /\ IF op = "add"
       THEN id \notin IdsOf(passwords) \cup {m.arg : m \in mutations}
       ELSE id \in IdsOf(passwords)
    /\ LET recalled == secureGet(W, "masterKey", now)
       IN  /\ SetW(recalled.st)
           /\ IF recalled.value = Null
              THEN /\ vaultDone' = [vaultDone EXCEPT !.last = "failed"]
                   /\ UNCHANGED <<passwords, mutations>>
              ELSE /\ passwords' = IF op = "add" THEN Append(passwords, 10 * id)
                                   ELSE passwords
                   /\ mutations' = mutations \cup
                          {[op |-> op, arg |-> id, key |-> recalled.value,
                            snapshot |-> IF userDoc = NoDoc THEN <<>> ELSE userDoc.vault]}
                   /\ UNCHANGED vaultDone
    /\ VaultFrame

\* a handler's write settles: on success handleUpdatePassword and
\* confirmDeletePassword change the list, on failure the catch shows a toast
VaultFinish(m, writeFails) ==
    /\ m \in mutations
    /\ \E written \in {mutationWrite(W, m, writeFails)} :
           /\ written.w.rng <= MaxVaultRandom
           /\ SetW(written.w)
           /\ mutations' = mutations \ {m}
           /\ passwords' = IF ~written.ok \/ m.op = "add" THEN passwords
                           ELSE IF m.op = "update" THEN MapEntries(passwords, m.arg)
                           ELSE FilterEntries(passwords, m.arg)
           /\ vaultDone' =
                  IF ~written.ok THEN [vaultDone EXCEPT !.last = "failed"]
                  ELSE [last |-> "ok",
                        added |-> IF m.op = "add" THEN vaultDone.added \cup {m.arg}
                                  ELSE IF m.op = "delete" THEN vaultDone.added \ {m.arg}
                                  ELSE vaultDone.added,
                        removed |-> IF m.op = "delete" THEN vaultDone.removed \cup {m.arg}
                                    ELSE IF m.op = "add" THEN vaultDone.removed \ {m.arg}
                                    ELSE vaultDone.removed]
    /\ VaultFrame

VaultNext ==
    \/ \E password \in AccountPasswords : SignUp(password)
    \/ \E accountPassword \in AccountPasswords : UnlockVault(accountPassword)
    \/ \E op \in VaultOps, id \in VaultIds : VaultBegin(op, id)
    \/ \E m \in mutations, writeFails \in BOOLEAN : VaultFinish(m, writeFails)

InitVault ==
    /\ CipherIdle
    /\ now = 0
    /\ inMemoryStorage = [k \in AppKeys |-> Absent]
    /\ timers = {}
    /\ nextTimerId = 1
    /\ lastHold = [k \in Keys |-> NoHold]
    /\ holds = [k \in Keys |-> 0]
    /\ AppIdle

SpecVault == InitVault /\ [][VaultNext]_vars

-----------------------------------------------------------------------------
(* login, the auth state listener and the second factor *)

\* a handler of AuthProvider ran up to its next await
GateStep(w, authenticated, g) ==
    /\ \E left \in {w} : left.rng <= MaxRandom /\ SetW(left)
    /\ isAuthenticated' = authenticated
    /\ gate' = g
    /\ UNCHANGED <<cipherVars, now, lastHold, holds, auditVars, hostVars, uiVars>>
    /\ UNCHANGED <<panicPc, panicKnownUid, lockLogPending>>
    /\ UNCHANGED <<rotationVars, idleVars, clipboardVars, sessionVars, panicFailed,
                   vaultPageVars>>

\* signUp(email, password, displayName): it ends with setIsAuthenticated(true)
GateSignUp(password) ==
    /\ ~authAccount
    /\ currentUser = NoUser
    /\ authAccount' = TRUE
    /\ authPassword' = password
    /\ GateStep(signUp(W, password, now), TRUE, gate)
    /\ UNCHANGED twoFactorEnabled

GateUnlockVault(accountPassword) ==
    /\ currentUser # NoUser
    /\ userDoc # NoDoc
    /\ GateStep(unlockVault(W, accountPassword, now), isAuthenticated, gate)
    /\ UNCHANGED <<authAccount, authPassword, twoFactorEnabled>>

\* setupTwoFactor(secret): updateDoc stores twoFactorEnabled: true
setupTwoFactorThrows(w) == w.user = NoUser \/ w.key = Null \/ w.doc = NoDoc

SetupTwoFactor ==
    /\ ~setupTwoFactorThrows(W)
    /\ twoFactorEnabled' = TRUE
    /\ GateStep(W, isAuthenticated, gate)
    /\ UNCHANGED <<authAccount, authPassword>>

\* signOut(): firebaseSignOut, and the listener is handed null
GateSignOut ==
    /\ currentUser # NoUser
    /\ gate.loginPc = "none"
    /\ gate.listener = "none"
    /\ GateStep(signOut(W, now), FALSE, NoSession)
    /\ UNCHANGED <<authAccount, authPassword, twoFactorEnabled>>

\* login(email, password) up to its getDoc: signInWithEmailAndPassword
\* resolves, which schedules the auth state listener, and setCurrentUser
LoginSignIn ==
    /\ authAccount
    /\ currentUser = NoUser
    /\ gate.loginPc = "none"
    /\ GateStep([W EXCEPT !.user = UserId], isAuthenticated,
                [loginPc |-> "doc", listener |-> "user",
                 needsCode |-> twoFactorEnabled, verified |-> FALSE])
    /\ UNCHANGED <<authAccount, authPassword, twoFactorEnabled>>

\* isAuthenticated after login has read the document
loginAuthenticated(authenticated, enabled) ==
    IF enabled THEN authenticated ELSE TRUE

\* the rest of login: getDoc returns; with twoFactorEnabled it returns the
\* user, without it setIsAuthenticated(true) and the login is logged
LoginDocRead ==
    /\ gate.loginPc = "doc"
    /\ GateStep(IF twoFactorEnabled /\ userDoc # NoDoc THEN W
                ELSE logAuditEvent(W, UserId, "user_login", now),
                loginAuthenticated(isAuthenticated, twoFactorEnabled /\ userDoc # NoDoc),
                [gate EXCEPT !.loginPc = "none"])
    /\ UNCHANGED <<authAccount, authPassword, twoFactorEnabled>>

\* isAuthenticated after the listener: setIsAuthenticated(!!user)
listenerAuthenticated(authenticated, user) == user # NoUser

\* the onAuthStateChanged listener runs for the sign-in
AuthStateListener ==
    /\ gate.listener = "user"
    /\ GateStep(authStateChanged(W, UserId, now),
                listenerAuthenticated(isAuthenticated, UserId),
                [gate EXCEPT !.listener = "none"])
    /\ UNCHANGED <<authAccount, authPassword, twoFactorEnabled>>

\* verifyTwoFactor(code): it throws without a user, a stored secret or the
\* masterKey state
verifyTwoFactorThrows(w, enabled) ==
    w.user = NoUser \/ w.doc = NoDoc \/ ~enabled \/ w.key = Null

VerifyTwoFactor(codeValid) ==
    /\ currentUser # NoUser
    /\ gate.loginPc = "none"
    /\ LET accepted == codeValid /\ ~verifyTwoFactorThrows(W, twoFactorEnabled)
       IN  GateStep(W, isAuthenticated \/ accepted,
                    [gate EXCEPT !.verified = @ \/ accepted])
    /\ UNCHANGED <<authAccount, authPassword, twoFactorEnabled>>

GateNext ==
    \/ \E password \in AccountPasswords : GateSignUp(password)
    \/ \E accountPassword \in MasterPasswords : GateUnlockVault(accountPassword)
    \/ SetupTwoFactor
    \/ GateSignOut
    \/ LoginSignIn
    \/ LoginDocRead
    \/ AuthStateListener
    \/ \E codeValid \in BOOLEAN : VerifyTwoFactor(codeValid)

InitGate ==
    /\ CipherIdle
    /\ now = 0
    /\ inMemoryStorage = [k \in AppKeys |-> Absent]
    /\ timers = {}
    /\ nextTimerId = 1
    /\ lastHold = [k \in Keys |-> NoHold]
    /\ holds = [k \in Keys |-> 0]
    /\ AppIdle

SpecGate == InitGate /\ [][GateNext]_vars

-----------------------------------------------------------------------------
(* unlockVault behind its rate limit *)

RateUnlockVault(accountPassword) ==
    /\ currentUser # NoUser
    /\ userDoc # NoDoc
    /\ \E call \in {unlockVaultLimited(W, unlockAttempts, accountPassword, now)} :
           /\ call.w.rng <= MaxRateRandom
           /\ SetW(call.w)
           /\ unlockAttempts' = call.attempts
           /\ unlockHistory' =
                  [failedAt |-> IF call.outcome = "failed"
                                THEN Append(unlockHistory.failedAt, now)
                                ELSE IF call.outcome = "opened" THEN <<>>
                                ELSE unlockHistory.failedAt,
                   last |-> call.outcome]
    /\ UNCHANGED <<cipherVars, now, lastHold, holds, auditVars, hostVars, uiVars>>
    /\ UNCHANGED <<authAccount, authPassword, panicPc, panicKnownUid, lockLogPending>>
    /\ UNCHANGED <<rotationVars, idleVars, clipboardVars, pageVars>>

RateTick ==
    /\ now < MaxRateTime
    /\ now' = now + 1
    /\ UNCHANGED <<inMemoryStorage, timers, nextTimerId, lastHold, holds>>
    /\ UNCHANGED <<cipherVars, appVars>>

RateNext ==
    \/ \E password \in AccountPasswords : SignUp(password)
    \/ \E accountPassword \in MasterPasswords : RateUnlockVault(accountPassword)
    \/ RateTick

InitRate ==
    /\ CipherIdle
    /\ now = 0
    /\ inMemoryStorage = [k \in AppKeys |-> Absent]
    /\ timers = {}
    /\ nextTimerId = 1
    /\ lastHold = [k \in Keys |-> NoHold]
    /\ holds = [k \in Keys |-> 0]
    /\ AppIdle

SpecRate == InitRate /\ [][RateNext]_vars

-----------------------------------------------------------------------------
(* The idle effect of AuthProvider.  Every event falls on a tick, so of the
   interval's callbacks, one a minute, the model keeps the one on each tick
   after the effect last ran; the effect runs again, and starts a new
   interval, when vaultUnlocked, autoLockTime or lastActivity changes.  What
   the user does with the page is seen by handleActivity first. *)

AutoLockTimes == {0, 1, 2}

IdleStep(w) ==
    /\ w.rng <= MaxRandom
    /\ SetW(w)
    /\ checkDue' = /\ checkDue
                   /\ w.unlocked = vaultUnlocked
                   /\ w.autoLockTime = autoLockTime
                   /\ w.lastActivity = lastActivity
    /\ UNCHANGED <<cipherVars, now, lastHold, holds, auditVars, hostVars, uiVars>>
    /\ UNCHANGED <<authAccount, authPassword, panicPc, panicKnownUid, lockLogPending>>
    /\ UNCHANGED <<rotationVars, clipboardVars, sessionVars, pageVars>>

HandleActivity ==
    /\ idleCheck' = NoCheck
    /\ IdleStep(handleActivity(W, now))

IdleUnlockVault(accountPassword) ==
    /\ currentUser # NoUser
    /\ userDoc # NoDoc
    /\ ~vaultUnlocked
    /\ idleCheck' = NoCheck
    /\ IdleStep(unlockVault(handleActivity(W, now), accountPassword, now))

IdleLockVault ==
    /\ vaultUnlocked
    /\ idleCheck' = NoCheck
    /\ IdleStep(lockVault(handleActivity(W, now)))

UpdateAutoLockTime(time) ==
    /\ currentUser # NoUser
    /\ idleCheck' = NoCheck
    /\ IdleStep(updateAutoLockTime(handleActivity(W, now), time))

IdleInterval ==
    /\ checkDue
    /\ checkDue' = FALSE
    /\ idleCheck' = [ran |-> TRUE, wasUnlocked |-> vaultUnlocked,
                     limit |-> autoLockTime, idle |-> now - lastActivity]
    /\ SetW(idleInterval(W, now))
    /\ UNCHANGED <<cipherVars, now, lastHold, holds, auditVars, hostVars, uiVars>>
    /\ UNCHANGED <<authAccount, authPassword, panicPc, panicKnownUid, lockLogPending>>
    /\ UNCHANGED <<rotationVars, clipboardVars, sessionVars, pageVars>>

\* the clock reaches the next tick once this tick's callback has run
IdleTick ==
    /\ ~checkDue
    /\ checkDue' = TRUE
    /\ Tick
    /\ UNCHANGED <<cipherVars, appCoreVars, hostVars, uiVars>>
    /\ UNCHANGED <<rotationVars, idleCheck, clipboardVars, sessionVars, pageVars>>

IdleNext ==
    \/ \E password \in AccountPasswords : SignUp(password)
    \/ CreateTestUser
    \/ Login
    \/ UpdateUserDisplayName
    \/ \E accountPassword \in MasterPasswords : IdleUnlockVault(accountPassword)
    \/ IdleLockVault
    \/ HandleActivity
    \/ \E time \in AutoLockTimes : UpdateAutoLockTime(time)
    \/ IdleInterval
    \/ IdleTick
    \/ \E t \in timers : TimerFire(t) /\ UNCHANGED <<cipherVars, appVars>>

InitIdle ==
    /\ CipherIdle
    /\ now = 0
    /\ inMemoryStorage = [k \in AppKeys |-> Absent]
    /\ timers = {}
    /\ nextTimerId = 1
    /\ lastHold = [k \in Keys |-> NoHold]
    /\ holds = [k \in Keys |-> 0]
    /\ AppIdle

SpecIdle == InitIdle /\ [][IdleNext]_vars

-----------------------------------------------------------------------------
\* C1: whenever encryptData(P, K) has been decrypted under the same
\* non-empty password K, the result is exactly P.
C1_RoundTrip == cPc = "decrypted" => cOut1 = Ok(cP)

\* C2: whenever an envelope made under K1 has been decrypted under a
\* different password K2, the result is the decryption-failed error and
\* no plaintext.
C2_KeyMismatchFailsClosed ==
    (cPc = "decrypted" /\ cK1 # cK2) => cOut2 = Err(DecryptionFailed)

\* C3: over any sequence of encrypting operations, no two envelopes that
\* encryptData has produced share a salt, and no two share a nonce.
C3_FreshSaltAndNonce ==
    \A i, j \in 1..Len(produced) :
        i # j => /\ produced[i][1] # produced[j][1]
                 /\ produced[i][2] # produced[j][2]

\* C3 witness: the same plaintext has been encrypted twice under the same
\* password, and a vault envelope and a session-tier envelope exist.
C3_Witness ==
    /\ \E i, j \in 1..Len(produced) :
           /\ i < j
           /\ produced[i][3].b64.pt = produced[j][3].b64.pt
           /\ produced[i][3].b64.key.pw = produced[j][3].b64.key.pw
    /\ userDoc # NoDoc /\ userDoc.vault # <<>>
    /\ sessionStorage[AuditLogsKey] # Absent

\* C4: after secureSet(k, v, T) with T > 0 that no caller has since replaced
\* or released, secureGet(k) returns v at every instant before T has elapsed
\* and null at every instant after, whether or not the expiry callback ran.
C4_CustodyExpiry ==
    \A k \in Keys :
        (lastHold[k] # NoHold /\ lastHold[k].ttl > 0) =>
            /\ now < lastHold[k].at + lastHold[k].ttl
                   => secureGet(St, k, now).value = lastHold[k].value
            /\ now > lastHold[k].at + lastHold[k].ttl
                   => secureGet(St, k, now).value = Null

\* C4 witness: T has elapsed, the expiry callback has not run yet and the
\* entry is still in memory.
C4_Witness ==
    \E k \in Keys :
        /\ lastHold[k] # NoHold /\ lastHold[k].ttl > 0
        /\ now > lastHold[k].at + lastHold[k].ttl
        /\ inMemoryStorage[k] # Absent
        /\ \E t \in timers : t.key = k

\* C5: each key has at most one pending expiry timer, and a pending timer is
\* the one armed by the secureSet that stored the key's current entry.
C5_OneTimerPerKey ==
    /\ \A k \in Keys : Cardinality({t \in timers : t.key = k}) <= 1
    /\ \A t \in timers :
           /\ inMemoryStorage[t.key] # Absent
           /\ inMemoryStorage[t.key].timeoutId = t.id
           /\ inMemoryStorage[t.key].expiry = t.due

\* C5 witness: a key held twice with an expiry has a timer pending.
C5_Witness ==
    \E k \in Keys : holds[k] >= 2 /\ \E t \in timers : t.key = k

\* C6: whenever the custody entry 'masterKey' is absent (never held, removed
\* or past its expiry), the masterKey state of AuthProvider holds no key.
C6_SingleLiveHolder ==
    secureGet(W, "masterKey", now).value = Null => masterKey = Null

\* C7: at the moment triggerPanic issues the redirect, no volatile custody
\* entry exists and no session-tier entry remains in session storage.
C7_PanicClearsBothTiers ==
    panicPc = "redirected" =>
        /\ \A k \in AppKeys : inMemoryStorage[k] = Absent
        /\ \A k \in SessionKeys : sessionStorage[k] = Absent

\* C8: when the panic signal arrived while userPanicData held a uid, then by
\* the time the redirect is issued a panic_triggered record of that user has
\* been appended.
C8_PanicRecordAppended ==
    (panicPc = "redirected" /\ panicKnownUid # NoUser) =>
        \E i \in 1..Len(auditLogs) :
            /\ auditLogs[i].eventType = "panic_triggered"
            /\ auditLogs[i].userId = panicKnownUid

\* C9: the i-th record appended for the user has sequenceId i.
C9_SequenceContiguity ==
    \A i \in 1..Len(auditLogs) : auditLogs[i].sequenceId = i

\* C10: in the stored audit log the oldest record is hashed with the empty
\* prior hash, and every later record is hashed over its predecessor's hash
\* and carries its predecessor's sequenceId plus one.
C10_StoredLogChained ==
    \A i \in 1..Len(auditLogs) :
        LET rec == auditLogs[i]
            priorHash == IF i = 1 THEN EmptyText ELSE auditLogs[i - 1].clientHash
        IN  /\ rec.clientHash =
                   sha256Hash(<<priorHash, rec.userId, rec.eventType, rec.description,
                                rec.timestamp>>)
            /\ i > 1 => rec.sequenceId = auditLogs[i - 1].sequenceId + 1

\* C11: after sequential logAuditEvent calls of types that are not high
\* volume, verifyAuditLogIntegrity reports valid while no stored record was
\* altered; once the description of one stored record was altered it
\* reports invalid, with a hash-mismatch issue naming that record's sequenceId.
C11_TamperDetected ==
    (/\ verifyResult # NotVerified
     /\ overlap = NoOverlap
     /\ \A i \in 1..Len(auditLogs) : ~isHighVolumeEvent(auditLogs[i].eventType)) =>
        IF tampered = 0 THEN verifyResult.valid
        ELSE /\ ~verifyResult.valid
             /\ [issue |-> "Hash mismatch",
                 sequenceId |-> auditLogs[tampered].sequenceId] \in verifyResult.issues

\* C12: when two logAuditEvent calls of one user were in flight together and
\* both have completed, both records are in the collection, the later
\* started one carries the earlier one's sequenceId plus one and is hashed
\* over the earlier one's hash.
C12_OverlapSerialised ==
    (overlap # NoOverlap /\ inFlight = <<>>) =>
        /\ \A e \in {overlap.first, overlap.second} :
               \E i \in 1..Len(auditLogs) :
                   /\ auditLogs[i].sequenceId = e.sequenceId
                   /\ auditLogs[i].clientHash = e.clientHash
        /\ overlap.second.sequenceId = overlap.first.sequenceId + 1
        /\ overlap.second.clientHash.sha256[1] = overlap.first.clientHash

\* C13: a logAuditEvent call that completes with a high-volume event type
\* leaves a stored log of that one record; a call that completes with any
\* other type leaves the new record in front of every record the stored log
\* held before, up to the bound.
C13_StoreFrame ==
    [][Len(auditLogs') = Len(auditLogs) + 1 =>
          LET written == auditLogs'[Len(auditLogs')]
              logEntry == [written EXCEPT !.timestamp = ServerTimestamp]
          IN  retained' = IF isHighVolumeEvent(logEntry.eventType) THEN <<logEntry>>
                          ELSE Take(<<logEntry>> \o retained, MAX_LOCAL_LOG_ENTRIES)]_vars

\* the records appended since the stored log was last replaced by a
\* high-volume event, newest first, as the logger holds them locally
RECURSIVE NewestFirst(_)
NewestFirst(n) ==
    IF n = 0 THEN <<>>
    ELSE LET logEntry == [auditLogs[n] EXCEPT !.timestamp = ServerTimestamp]
         IN  IF isHighVolumeEvent(logEntry.eventType) THEN <<logEntry>>
             ELSE <<logEntry>> \o NewestFirst(n - 1)

C15_ThreeNewestFirst ==
    (/\ Len(auditLogs) = 3 /\ inFlight = <<>> /\ overlap = NoOverlap
     /\ \A i \in 1..3 : ~isHighVolumeEvent(auditLogs[i].eventType)) =>
        LET logs == getAuditLogs(W, UserId, now)
        IN  /\ Len(logs) = 3
            /\ \A i \in 1..3 : logs[i].sequenceId = 4 - i

\* C16: verifyMasterkey(p, hashMasterkey(p)) is true for every password p,
\* and verifyMasterkey(q, hashMasterkey(p)) is false for every q other than p.
C16_VerifierAcceptsOnlyItsPassword ==
    cVerified # NotRun =>
        /\ cVerified.same
        /\ cK1 # cK2 => ~cVerified.other

\* C17: for a well-formed envelope with one bit inverted, each decrypting
\* function fails, and with the same error it gives for the unchanged
\* envelope under a wrong password.
C17_OneDecryptionError ==
    (cPc = "opened" /\ cMangle \in BitFlips) =>
        \A layer \in {"utils", "wrapper", "lib"} :
            /\ ~cOpened.given[layer].ok
            /\ ~cOpened.wrong[layer].ok => cOpened.given[layer] = cOpened.wrong[layer]

\* C17 witness: the ciphertext had a bit inverted, the second password is a
\* wrong one, and both attempts ended in the decryption-failed error.
C17_Witness ==
    /\ cPc = "opened"
    /\ cMangle = "flipCt"
    /\ cOpened.given.utils = Err(DecryptionFailed)
    /\ cOpened.wrong.utils = Err(DecryptionFailed)
    /\ cOpened.given.lib = cOpened.wrong.lib

\* C18: decryptData fails with the malformed-envelope error for every input
\* that does not consist of exactly three colon-delimited fields, and for
\* every input with a field that is not valid base64.
C18_MalformedRejected ==
    (/\ cPc = "opened"
     /\ \/ Len(cIn.utils) # 3
        \/ \E i \in 1..Len(cIn.utils) : cIn.utils[i] = NotBase64) =>
        cOpened.given.utils = Err(MalformedEnvelope)

\* C19: every record of the session tier carries an instant as its expiry,
\* and once that instant has passed secureSessionGet returns null for its
\* key although session storage still holds the item.
C19_SessionRecordExpires ==
    \A k \in SessionKeys :
        sessionStorage[k] # Absent =>
            /\ DOMAIN sessionStorage[k].expiry = {"num"}
            /\ now > sessionStorage[k].expiry.num
                   => secureSessionGet(W, k, Null, now).value = Null

\* C20: the array storeLogEntry last held in the session tier under the
\* logging key is what a recall with that key returns, and a recall with any
\* other key material does not return it.
C20_SessionKeyMaterial ==
    (sessionStorage[AuditLogsKey] # Absent /\ inFlight = <<>>) =>
        /\ secureSessionGet(W, AuditLogsKey, cachedSessionLoggingKey, now).value
               = JsArray(retained)
        /\ \A other \in {SESSION_KEY, Null} :
               secureSessionGet(W, AuditLogsKey, other, now).value # JsArray(retained)

\* C21: once beforeunload has fired and its listener has run, secureGet
\* returns null for every key and no expiry timer is pending.
C21_TeardownClearsCustody ==
    unloaded =>
        /\ \A k \in Keys : secureGet(St, k, now).value = Null
        /\ timers = {}

\* C21 witness: beforeunload has fired on a page that had armed expiry
\* timers for both keys.
C21_Witness ==
    /\ unloaded
    /\ \A k \in Keys : holds[k] >= 1
    /\ nextTimerId > 2

\* C22: every step that unlocks or locks the vault, and every step that
\* changes the stored vault, appends an audit record or has started the
\* logAuditEvent call that will.
C22_VaultEventsAudited ==
    [][(\/ vaultUnlocked' # vaultUnlocked
        \/ /\ userDoc # NoDoc
           /\ userDoc' # NoDoc
           /\ userDoc'.vault # userDoc.vault) =>
          \/ Len(auditLogs') > Len(auditLogs)
          \/ lockLogPending' # NoPending]_vars

\* C23: a load of a vault whose decrypted payload is malformed reports an
\* error to its caller; it does not end in an empty list or a null without
\* one.
C23_CorruptVaultReported ==
    (loaded.by # "none" /\ loaded.malformed) => loaded.error # NoError

\* C24: an unlock attempt of the form whose 12-second timeout fired is
\* discarded when it settles: the vault is not unlocked by it and the key is
\* not in custody.
C24_TimedOutAttemptDiscarded ==
    (attempt.state = "settled" /\ attempt.timedOut) =>
        /\ ~vaultUnlocked
        /\ secureGet(W, "masterKey", now).value = Null

\* C25: a master-key rotation or an account deletion that changed or deleted
\* the user's document or account did so after its re-authentication
\* challenge had succeeded.
C25_WritesOnlyAfterChallenge ==
    (sensitive.op # "none" /\ sensitive.wrote) => sensitive.challenge = "passed"

\* C26: whatever has been done, the user's document holds the vault only as
\* an AES-GCM envelope and the password only as a salted digest, no text that
\* session storage gives back is a password, and an audit record carries
\* nothing but its event's description and a digest.
C26_KeyNotPersisted ==
    /\ userDoc # NoDoc =>
           /\ userDoc.vaultKeyHash # Missing =>
                  DOMAIN userDoc.vaultKeyHash.hash = {"sha256"}
           /\ userDoc.vault # <<>> =>
                  /\ \A i \in 1..3 : IsBase64(userDoc.vault[i])
                  /\ DOMAIN userDoc.vault[3].b64 = {"key", "iv", "pt"}
    /\ \A k \in SessionKeys, pw \in MasterPasswords :
           sessionStorage[k] # Absent =>
               LET read == decryptData(sessionStorage[k].value, KeyChars(k))
               IN  read.ok => read.value # pw
    /\ \A i \in 1..Len(auditLogs) :
           /\ auditLogs[i].description = Description(auditLogs[i].eventType)
           /\ DOMAIN auditLogs[i].clientHash = {"sha256"}

C26_Witness ==
    /\ vaultUnlocked
    /\ secureGet(W, "masterKey", now).value # Null
    /\ userDoc # NoDoc
    /\ userDoc.vault # <<>>
    /\ userDoc.vaultKeyHash # Missing
    /\ \A k \in SessionKeys : sessionStorage[k] # Absent
    /\ Len(auditLogs) >= 3

\* C27: while the vault is unlocked with a positive autoLockTime and the
\* time since the last activity has reached it, the idle check of that
\* instant is still to run; an idle check that found the vault unlocked left
\* it locked and the key out of custody if the idle time had reached
\* autoLockTime, and left it unlocked if activity had kept the idle time
\* below it or autoLockTime was 0.
C27_IdleAutoLock ==
    /\ (vaultUnlocked /\ autoLockTime > 0 /\ now - lastActivity >= autoLockTime)
           => checkDue
    /\ (idleCheck # NoCheck /\ idleCheck.wasUnlocked) =>
           IF idleCheck.limit > 0 /\ idleCheck.idle >= idleCheck.limit
           THEN /\ ~vaultUnlocked
                /\ masterKey = Null
                /\ secureGet(W, "masterKey", now).value = Null
           ELSE vaultUnlocked

C27_Witness ==
    /\ idleCheck # NoCheck
    /\ idleCheck.wasUnlocked
    /\ idleCheck.limit = 2
    /\ idleCheck.idle = 2
    /\ lastActivity = 1
    /\ ~vaultUnlocked

\* C28: once updateUserPassword has succeeded, unlockVault with the password
\* the account now has does not throw, and the stored vault decrypts under
\* that password.
C28_NewPasswordUnlocks ==
    (sensitive.op = "updateUserPassword" /\ sensitive.challenge = "passed"
         /\ currentUser # NoUser /\ userDoc # NoDoc) =>
        /\ ~unlockVaultThrows(W, authPassword)
        /\ decryptData(userDoc.vault, authPassword).ok

\* C29: a copy made with auto-clear enabled and clearTime > 0 is not on the
\* clipboard after clearTime has elapsed since it was made, and a copy an
\* auto-clear wiped had been on the clipboard for its own clearTime.
C29_ClearedAfterOwnClearTime ==
    /\ (clipboard # EmptyClipboard /\ clipboard.scheduled) =>
           now <= clipboard.copiedAt + ClearDelay(clipboard.clearTime)
    /\ (clipboardCleared # NoClear /\ clipboardCleared.clearTime > 0) =>
           clipboardCleared.at - clipboardCleared.copiedAt
               >= ClearDelay(clipboardCleared.clearTime)

\* C30: a step that makes vaultUnlocked true, or that puts a key into
\* custody, is taken with a user signed in and a password that the stored
\* verifier accepts, or with no verifier stored yet, and it is that password
\* that is held; and in every state an unlockVault call with a password the
\* verifier rejects throws and leaves vaultUnlocked, the masterKey state, the
\* custody entry and the user's document as they were.
C30_UnlockOnlyWhenVerified ==
    /\ [][(\/ ~vaultUnlocked /\ vaultUnlocked'
           \/ /\ inMemoryStorage'["masterKey"] # Absent
              /\ inMemoryStorage'["masterKey"] # inMemoryStorage["masterKey"]) =>
              /\ currentUser # NoUser
              /\ userDoc # NoDoc
              /\ \E pw \in MasterPasswords :
                     /\ \/ userDoc.vaultKeyHash = Missing
                        \/ verifyMasterkey(pw, userDoc.vaultKeyHash)
                     /\ vaultUnlocked'
                     /\ masterKey' = JsString(pw)
                     /\ inMemoryStorage'["masterKey"].value = JsString(pw)]_vars
    /\ [](\A pw \in MasterPasswords :
              (/\ currentUser # NoUser
               /\ userDoc # NoDoc
               /\ userDoc.vaultKeyHash # Missing
               /\ ~verifyMasterkey(pw, userDoc.vaultKeyHash)) =>
                  LET w == unlockVault(W, pw, now)
                  IN  /\ unlockVaultThrows(W, pw)
                      /\ w.unlocked = vaultUnlocked
                      /\ w.key = masterKey
                      /\ w.mem["masterKey"] = inMemoryStorage["masterKey"]
                      /\ w.doc = userDoc)

C30_Witness ==
    /\ vaultUnlocked
    /\ secureGet(W, "masterKey", now).value = masterKey
    /\ masterKey # Null
    /\ \E i, j \in 1..Len(auditLogs) :
           /\ i < j
           /\ auditLogs[i].eventType = "vault_unlock_failed"
           /\ auditLogs[j].eventType = "vault_unlocked"

-----------------------------------------------------------------------------
(* C32 *)

\* the panic signal has been handled: handlePanicMode has run
PanicHandled == panicPc \in {"logging", "redirected"}

\* the vault is shown locked and custody holds no vault key
VaultLocked ==
    /\ ~vaultUnlocked
    /\ secureGet(W, "masterKey", now).value = Null

\* C32: the step in which the panic signal is handled leaves the vault locked
\* and the vault key out of custody; from then on a locked vault stays locked
\* until a step in which unlockVault accepted a password; and while it is
\* locked saveVaultData throws with nothing written and loadVaultData returns
\* null.
C32_NothingWithoutFreshUnlock ==
    /\ [][(~PanicHandled /\ PanicHandled') => VaultLocked']_vars
    /\ [][(PanicHandled /\ VaultLocked /\ ~VaultLocked') =>
              \E pw \in MasterPasswords :
                  LET opened == unlockVault(W, pw, now)
                  IN  /\ ~unlockVaultThrows(W, pw)
                      /\ opened.unlocked
                      /\ vaultUnlocked'
                      /\ masterKey' = opened.key
                      /\ inMemoryStorage' = opened.mem]_vars
    /\ []((PanicHandled /\ VaultLocked) =>
              /\ \A data \in VaultContents : saveVaultData(W, data, now) = W
              /\ loadVaultData(W, now).returned = Null)

C32_Witness ==
    /\ panicPc = "redirected"
    /\ VaultLocked
    /\ userDoc # NoDoc
    /\ userDoc.vault # <<>>
    /\ \E i \in 1..Len(auditLogs) : auditLogs[i].eventType = "vault_unlocked"

-----------------------------------------------------------------------------
(* C33 *)

\* C33: once triggerPanic has been invoked the vault key cannot be recalled
\* from custody: while triggerPanic is suspended at its first await, before
\* it has cleared the volatile tier, custody holds no masterKey entry.
C33_ReleasedOnReceipt ==
    panicPc = "settings" => secureGet(W, "masterKey", now).value = Null

-----------------------------------------------------------------------------
(* C34 *)

\* C34: every invocation of triggerPanic is followed by a redirect, whichever
\* of reading the settings, clearing storage, clearing the clipboard and
\* logging the audit record fails.
C34_RedirectIssued == (panicPc = "settings") ~> (panicPc = "redirected")

C34_Witness ==
    /\ panicPc = "redirected"
    /\ panicFailed # {}

-----------------------------------------------------------------------------
(* C35 *)

\* C35: a master-key change called with a current master key that the stored
\* verifier rejects leaves the stored vault, the stored verifier and the
\* masterKey entry of custody as they were, with updateMasterKey and with
\* updateUserMasterkey, with a vault stored or not.
C35_RejectedKeyChangesNothing ==
    \A currentMasterkey \in MasterPasswords, newMasterkey \in MasterPasswords :
        (/\ currentUser # NoUser
         /\ vaultUnlocked
         /\ userDoc # NoDoc
         /\ userDoc.vaultKeyHash # Missing
         /\ ~verifyMasterkey(currentMasterkey, userDoc.vaultKeyHash)) =>
            \A changed \in {updateMasterKey(W, currentMasterkey, newMasterkey, now),
                            updateUserMasterkey(W, currentMasterkey, newMasterkey, now)} :
                /\ changed.doc.vault = userDoc.vault
                /\ changed.doc.vaultKeyHash = userDoc.vaultKeyHash
                /\ changed.mem["masterKey"] = inMemoryStorage["masterKey"]

-----------------------------------------------------------------------------
(* C36 *)

\* C36: after a master-key change attempt, however it ended, there is one
\* password that the stored verifier accepts and that opens the stored vault
\* envelope, and the masterKey entry of custody, when present, holds it.
C36_VerifierVaultCustodyAgree ==
    (/\ sensitive.op \in {"updateMasterKey", "updateUserMasterkey"}
     /\ userDoc # NoDoc
     /\ userDoc.vaultKeyHash # Missing
     /\ userDoc.vault # <<>>) =>
        \E pw \in MasterPasswords :
            /\ verifyMasterkey(pw, userDoc.vaultKeyHash)
            /\ decryptData(userDoc.vault, pw).ok
            /\ LET held == secureGet(W, "masterKey", now).value
               IN  held = Null \/ held = JsString(pw)

-----------------------------------------------------------------------------
(* C37 *)

\* C37: whenever the vault is shown unlocked, the vault key can be recalled
\* from custody.
C37_UnlockedImpliesRecallable ==
    vaultUnlocked => secureGet(W, "masterKey", now).value # Null

-----------------------------------------------------------------------------
(* C38 *)

\* C38: once every handler call of the Vault page has completed, with success
\* or with a failure, the list the page shows is the list of the stored vault,
\* in the same order.
C38_ShownIsStored ==
    (mutations = {} /\ vaultDone.last # "none") => passwords = StoredPasswords

-----------------------------------------------------------------------------
(* C39 *)

\* C39: once all handler calls have completed, the stored vault holds every
\* entry whose add was written and not deleted since, and no entry whose
\* delete was written and not added again since, also when calls overlapped.
C39_NoLostUpdate ==
    mutations = {} =>
        /\ vaultDone.added \subseteq IdsOf(StoredPasswords)
        /\ vaultDone.removed \cap IdsOf(StoredPasswords) = {}

-----------------------------------------------------------------------------
(* C40 *)

\* C40: in a session opened by login on an account with two-factor
\* authentication enabled, isAuthenticated is false until verifyTwoFactor has
\* accepted a code, whatever the order of login's steps and the listener.
C40_PartialUntilVerified ==
    (gate.needsCode /\ ~gate.verified) => ~isAuthenticated

=============================================================================
